---- MODULE Spec2Model ----
(***************************************************************************)
(* harperbot: diff-position resolution (find_diff_position), suggestion    *)
(* parsing (parse_diff_for_suggestions) and patch application              *)
(* (apply_suggestions_to_pr).                                              *)
(*                                                                         *)
(* A Python str is a sequence of one-character strings, so that split,     *)
(* strip, startswith, "in", slicing and re.match are computed on the       *)
(* characters.  A Python list index i (0-based) is element i + 1 here.     *)
(* An optional value (None or a value) is a sequence of length 0 or 1.     *)
(***************************************************************************)
EXTENDS Integers, Sequences, FiniteSets, TLC

\* Bounds of the model.
MaxDiffLines == 4
MaxTarget == 3
MaxRunLines == 3
MaxBlockLines == 4
MaxSuggestions == 2
MaxLine == 3
MaxPieces == 3

\* the commits of the PR branch after pr.head.sha: the pushes and the commit of
\* the call
MaxCommits == 2

VARIABLES
    fdp_diff,          \* find_diff_position: argument diff
    fdp_file_path,     \* find_diff_position: argument file_path
    fdp_line_number,   \* find_diff_position: argument line_number
    fdp_lines,         \* find_diff_position: local lines
    fdp_i,             \* find_diff_position: local i
    fdp_pc,            \* find_diff_position: "start", "outer", "inner", "done"
    fdp_return,        \* find_diff_position: returned value, <<>> is None
    fdp_spin,          \* find_diff_position: parity of the passes of the inner
                       \* loop that assigned nothing
    pds_diff_text,     \* parse_diff_for_suggestions: argument diff_text
    pds_pc,            \* parse_diff_for_suggestions: "call", "done"
    pds_return,        \* parse_diff_for_suggestions: returned value, <<>> is None
    as_suggestions,    \* apply_suggestions_to_pr: argument suggestions
    as_pc,             \* apply_suggestions_to_pr: "start", "files", "edits", "done",
                       \* "failed"
    as_head_ref,       \* apply_suggestions_to_pr: head_ref.object.sha
    as_groups,         \* apply_suggestions_to_pr: suggestion_groups, in insertion
                       \* order, as pairs <<file_path, suggs>>
    as_f,              \* apply_suggestions_to_pr: index of the file of the outer loop
    as_current_content, \* apply_suggestions_to_pr: current_content
    as_suggs,          \* apply_suggestions_to_pr: suggs, sorted
    as_k,              \* apply_suggestions_to_pr: index of the edit of the inner loop
    as_lines,          \* apply_suggestions_to_pr: lines
    as_offset,         \* apply_suggestions_to_pr: offset
    as_applied,        \* apply_suggestions_to_pr: applied
    as_changes,        \* apply_suggestions_to_pr: changes, as pairs <<file_path, content>>
    repo_blobs,        \* the repository: the blobs created, in order
    repo_trees,        \* the repository: the trees created, in order
    repo_commits,      \* the repository: the commits created, in order
    repo_ref,          \* the repository: the commit heads/<pr.head.ref> points to
    pcs_analysis,      \* parse_code_suggestions: argument analysis
    pcs_pc,            \* parse_code_suggestions: "scan", "parse", "done"
    pcs_start_pos,     \* parse_code_suggestions: local start_pos (0-based)
    pcs_diff_blocks,   \* parse_code_suggestions: local diff_blocks
    pcs_n,             \* parse_code_suggestions: index of the block of the for loop
    pcs_suggestions,   \* parse_code_suggestions: local suggestions, returned
    vws_payload,       \* verify_webhook_signature: argument payload
    vws_signature,     \* verify_webhook_signature: argument signature, <<>> is None
    vws_secret,        \* verify_webhook_signature: argument secret, <<>> is None
    vws_pc,            \* verify_webhook_signature: "call", "returned", "raised"
    vws_return,        \* verify_webhook_signature: returned value
    gh_heads,          \* GitHub: the commit each branch other than the PR branch
                       \* points to, <<>> when the branch does not exist
    gh_comments,       \* GitHub: the issue comments posted on the PR, in order
    gh_reviews,        \* GitHub: the reviews created on the PR, in order
    gh_pulls,          \* GitHub: the pull requests created, in order
    cb_base_branch,    \* create_branch: argument base_branch
    cb_new_branch_name, \* create_branch: argument new_branch_name
    cb_pc,             \* create_branch: "start", "base", "create", "fetch", "returned", "raised"
    cb_base_sha,       \* create_branch: base_ref.object.sha
    cb_return,         \* create_branch: the ref returned, as <<name, sha>>
    cb_creates,        \* create_branch: the calls of repo.create_git_ref made
    pcw_analysis,      \* post_comment_webhook: argument analysis
    pcw_diff,          \* post_comment_webhook: pr_details["diff"]
    pcw_config,        \* post_comment_webhook: config, the three authoring settings
    pcw_pc,            \* post_comment_webhook: the place the call is at
    pcw_suggestions,   \* post_comment_webhook: suggestions
    pcw_k,             \* post_inline_suggestions: index of the suggestion of the for loop
    pcw_review_comments, \* post_inline_suggestions: review_comments
    pcw_branch_ref,    \* create_improvement_pr_from_analysis: branch_ref
    wh_flask,          \* flask_available
    wh_payload,        \* request.get_data()
    wh_signature,      \* the header X-Hub-Signature-256, None or a string
    wh_secret,         \* os.getenv("WEBHOOK_SECRET"), None or a string
    wh_data,           \* request.get_json(), once it was read
    wh_pc,             \* where the call of webhook_handler is
    wh_calls,          \* the calls the handler has made, in order
    wh_response        \* the answer, once there is one: status code and body

fdpVars == <<fdp_diff, fdp_file_path, fdp_line_number, fdp_lines, fdp_i, fdp_pc,
             fdp_return, fdp_spin>>

pdsVars == <<pds_diff_text, pds_pc, pds_return>>

asVars == <<as_suggestions, as_pc, as_head_ref, as_groups, as_f, as_current_content,
            as_suggs, as_k, as_lines, as_offset, as_applied, as_changes>>

repoVars == <<repo_blobs, repo_trees, repo_commits, repo_ref>>

pcsVars == <<pcs_analysis, pcs_pc, pcs_start_pos, pcs_diff_blocks, pcs_n,
             pcs_suggestions>>

vwsVars == <<vws_payload, vws_signature, vws_secret, vws_pc, vws_return>>

ghVars == <<gh_heads, gh_comments, gh_reviews, gh_pulls>>

cbVars ==
    <<cb_base_branch, cb_new_branch_name, cb_pc, cb_base_sha, cb_return, cb_creates>>

pcwVars ==
    <<pcw_analysis, pcw_diff, pcw_config, pcw_pc, pcw_suggestions, pcw_k,
      pcw_review_comments, pcw_branch_ref>>

whVars ==
    <<wh_flask, wh_payload, wh_signature, wh_secret, wh_data, wh_pc, wh_calls,
      wh_response>>

vars == <<fdpVars, pdsVars, asVars, repoVars, pcsVars, vwsVars, ghVars, cbVars, pcwVars, whVars>>

\* what a call of one function leaves alone: the state of the others
notFdp == <<pdsVars, asVars, repoVars, pcsVars, vwsVars, ghVars, cbVars, pcwVars, whVars>>
notPds == <<fdpVars, asVars, repoVars, pcsVars, vwsVars, ghVars, cbVars, pcwVars, whVars>>
notAs == <<fdpVars, pdsVars, pcsVars, vwsVars, ghVars, cbVars, pcwVars, whVars>>
notPcs == <<fdpVars, pdsVars, asVars, repoVars, vwsVars, ghVars, cbVars, pcwVars, whVars>>
notVws == <<fdpVars, pdsVars, asVars, repoVars, pcsVars, ghVars, cbVars, pcwVars, whVars>>
notGh == <<fdpVars, pdsVars, asVars, repoVars, pcsVars, vwsVars, cbVars, pcwVars, whVars>>
notCb == <<fdpVars, pdsVars, asVars, repoVars, pcsVars, vwsVars, ghVars, pcwVars, whVars>>
notCbGh == <<fdpVars, pdsVars, asVars, repoVars, pcsVars, vwsVars, pcwVars, whVars>>
notPcw == <<fdpVars, pdsVars, asVars, repoVars, pcsVars, vwsVars, ghVars, cbVars, whVars>>
notWh == <<fdpVars, pdsVars, asVars, repoVars, pcsVars, vwsVars, ghVars, cbVars, pcwVars>>

-----------------------------------------------------------------------------
\* Python str operations.

NL == "\n"

\* p occurs in s at (1-based) index m
At(s, m, p) ==
    /\ m >= 1
    /\ Len(s) >= m + Len(p) - 1
    /\ SubSeq(s, m, m + Len(p) - 1) = p

\* s.startswith(p)
StartsWith(s, p) == At(s, 1, p)

\* s.endswith(p)
EndsWith(s, p) == At(s, Len(s) - Len(p) + 1, p)

\* p in s
Contains(s, p) == \E k \in 1..(Len(s) - Len(p) + 1) : At(s, k, p)

\* s[n:]
DropFirst(s, n) == IF n >= Len(s) THEN <<>> ELSE SubSeq(s, n + 1, Len(s))

\* text.split("\n")
RECURSIVE Split(_)
Split(text) ==
    IF \A k \in 1..Len(text) : text[k] # NL
    THEN <<text>>
    ELSE LET k == CHOOSE k \in 1..Len(text) :
                      text[k] = NL /\ \A j \in 1..(k - 1) : text[j] # NL
         IN  <<SubSeq(text, 1, k - 1)>> \o Split(DropFirst(text, k))

\* "\n".join(ls)
RECURSIVE Join(_)
Join(ls) ==
    IF Len(ls) = 0 THEN <<>>
    ELSE IF Len(ls) = 1 THEN ls[1]
    ELSE ls[1] \o <<NL>> \o Join(Tail(ls))

DigitChars == <<"0", "1", "2", "3", "4", "5", "6", "7", "8", "9">>

\* the regular expression's \d
IsDigit(c) == \E d \in 1..Len(DigitChars) : DigitChars[d] = c

DigitVal(c) == (CHOOSE d \in 1..Len(DigitChars) : DigitChars[d] = c) - 1

\* int(ds) of a string of digits
RECURSIVE ToInt(_)
ToInt(ds) ==
    IF ds = <<>> THEN 0
    ELSE ToInt(SubSeq(ds, 1, Len(ds) - 1)) * Len(DigitChars) + DigitVal(ds[Len(ds)])

\* the index after the longest run of digits of s that starts at index k: \d*
RECURSIVE DigitsEnd(_, _)
DigitsEnd(s, k) ==
    IF k <= Len(s) /\ IsDigit(s[k]) THEN DigitsEnd(s, k + 1) ELSE k

\* the index after (?:,\d+)? matched at index k
OptCommaDigits(s, k) ==
    IF At(s, k, <<",">>) /\ DigitsEnd(s, k + 1) > k + 1
    THEN DigitsEnd(s, k + 1)
    ELSE k

\* re.match(r"@@ -\d+(?:,\d+)? \+(\d+)(?:,\d+)? @@", line): <<>> when there is
\* no match, else <<int(match.group(1))>>
HunkHeaderMatch(line) ==
    LET a1 == 5
        a2 == DigitsEnd(line, a1)
        a3 == OptCommaDigits(line, a2)
        c1 == a3 + 2
        c2 == DigitsEnd(line, c1)
        c3 == OptCommaDigits(line, c2)
    IN  IF /\ StartsWith(line, <<"@", "@", " ", "-">>)
           /\ a2 > a1
           /\ At(line, a3, <<" ", "+">>)
           /\ c2 > c1
           /\ At(line, c3, <<" ", "@", "@">>)
        THEN <<ToInt(SubSeq(line, c1, c2 - 1))>>
        ELSE <<>>

AtAt == <<"@", "@">>
DiffGit == <<"d", "i", "f", "f", " ", "-", "-", "g", "i", "t">>
Plus == <<"+">>
Minus == <<"-">>

-----------------------------------------------------------------------------
\* find_diff_position(diff, file_path, line_number)

\* "diff --git a/<p> b/<p>"
DiffHeader(p) == DiffGit \o <<" ", "a", "/">> \o p \o <<" ", "b", "/">> \o p

PathT == <<"t", ".", "p", "y">>
PathTBak == <<"t", ".", "p", "y", ".", "b", "a", "k">>

\* The lines the bounded diffs are made of.
FdpLinePool ==
    { DiffHeader(PathT),
      DiffHeader(PathTBak),
      <<"@", "@", " ", "-", "1", ",", "3", " ", "+", "1", ",", "3", " ", "@", "@">>,
      <<"@", "@", " ", "-", "1", " ", "+", "2", " ", "@", "@">>,
      <<"@", "@", " ", "+", "1", " ", "@", "@">>,
      <<"+", "n">>,
      <<"-", "o">>,
      <<" ", "c">> }

\* The diff of test_find_diff_position.
TestDiff ==
    Join(<< <<"d", "i", "f", "f", " ", "-", "-", "g", "i", "t", " ", "a", "/", "t",
              "e", "s", "t", ".", "p", "y", " ", "b", "/", "t", "e", "s", "t", ".",
              "p", "y">>,
            <<"@", "@", " ", "-", "1", ",", "3", " ", "+", "1", ",", "3", " ", "@", "@">>,
            <<" ", "o", "l", "d", " ", "l", "i", "n", "e", " ", "1">>,
            <<"-", "o", "l", "d", " ", "l", "i", "n", "e", " ", "2">>,
            <<"+", "n", "e", "w", " ", "l", "i", "n", "e", " ", "2">>,
            <<" ", "o", "l", "d", " ", "l", "i", "n", "e", " ", "3">> >>)

TestPath == <<"t", "e", "s", "t", ".", "p", "y">>

FdpDiffs ==
    { Join(ls) : ls \in UNION { [1..n -> FdpLinePool] : n \in 1..MaxDiffLines } }

\* no call of find_diff_position is under way
FdpIdle ==
    /\ fdp_diff = <<>>
    /\ fdp_file_path = <<>>
    /\ fdp_line_number = 0
    /\ fdp_lines = <<>>
    /\ fdp_i = 0
    /\ fdp_pc = "idle"
    /\ fdp_return = <<>>
    /\ fdp_spin = 0

\* no call of parse_diff_for_suggestions is under way
PdsIdle ==
    /\ pds_diff_text = <<>>
    /\ pds_pc = "idle"
    /\ pds_return = <<>>

\* the commit pr.head.sha, the head of the PR branch before any commit is made
HeadSha == 0

\* the PR branch points to pr.head.sha and nothing has been created
RepoInit ==
    /\ repo_blobs = <<>>
    /\ repo_trees = <<>>
    /\ repo_commits = <<>>
    /\ repo_ref = HeadSha

\* no call of apply_suggestions_to_pr is under way
AsIdle ==
    /\ as_suggestions = <<>>
    /\ as_pc = "idle"
    /\ as_head_ref = HeadSha
    /\ as_groups = <<>>
    /\ as_f = 0
    /\ as_current_content = <<>>
    /\ as_suggs = <<>>
    /\ as_k = 0
    /\ as_lines = <<>>
    /\ as_offset = 0
    /\ as_applied = FALSE
    /\ as_changes = <<>>
    /\ RepoInit

\* no call of parse_code_suggestions is under way
PcsIdle ==
    /\ pcs_analysis = <<>>
    /\ pcs_pc = "idle"
    /\ pcs_start_pos = 0
    /\ pcs_diff_blocks = <<>>
    /\ pcs_n = 0
    /\ pcs_suggestions = <<>>

\* no call of verify_webhook_signature is under way
VwsIdle ==
    /\ vws_payload = <<>>
    /\ vws_signature = <<>>
    /\ vws_secret = <<>>
    /\ vws_pc = "idle"
    /\ vws_return = FALSE

\* The branches other than the PR branch: the base branch of the PR, another
\* branch, the branch of test_create_branch_success and the branch of line 665.
MainBranch == "main"
DevBranch == "dev"
TestBranch == "feature-branch"
ImprovementBranch == "harperbot-improvements"
BranchNames == { MainBranch, DevBranch, TestBranch, ImprovementBranch }

\* the commit the base branch points to
BaseSha == 0 - 1

HeadsInit == [b \in BranchNames |-> IF b = MainBranch THEN <<BaseSha>> ELSE <<>>]

\* GitHub before the call: the base branch exists, the PR has no comment or review
GhIdle ==
    /\ gh_heads = HeadsInit
    /\ gh_comments = <<>>
    /\ gh_reviews = <<>>
    /\ gh_pulls = <<>>

\* no call of create_branch is under way
CbIdle ==
    /\ cb_base_branch = ""
    /\ cb_new_branch_name = ""
    /\ cb_pc = "idle"
    /\ cb_base_sha = HeadSha
    /\ cb_return = <<>>
    /\ cb_creates = 0

\* lines 196-198: the authoring settings of default_config
DefaultConfig ==
    [enable_authoring |-> FALSE, auto_commit_suggestions |-> FALSE,
     create_improvement_prs |-> FALSE]

\* no call of post_comment_webhook is under way
PcwIdle ==
    /\ pcw_analysis = <<>>
    /\ pcw_diff = <<>>
    /\ pcw_config = DefaultConfig
    /\ pcw_pc = "idle"
    /\ pcw_suggestions = <<>>
    /\ pcw_k = 0
    /\ pcw_review_comments = <<>>
    /\ pcw_branch_ref = <<>>

\* webhook_handler
WhIdle ==
    /\ wh_flask = TRUE
    /\ wh_payload = <<>>
    /\ wh_signature = <<>>
    /\ wh_secret = <<>>
    /\ wh_data = <<>>
    /\ wh_pc = "idle"
    /\ wh_calls = <<>>
    /\ wh_response = <<>>

FdpInit ==
    /\ WhIdle
    /\ PcwIdle
    /\ CbIdle
    /\ GhIdle
    /\ VwsIdle
    /\ PdsIdle
    /\ AsIdle
    /\ PcsIdle
    /\ \/ /\ fdp_diff \in FdpDiffs
          /\ fdp_file_path = PathT
       \/ /\ fdp_diff = TestDiff
          /\ fdp_file_path = TestPath
    /\ fdp_line_number \in 1..MaxTarget
    /\ fdp_lines = <<>>
    /\ fdp_i = 0
    /\ fdp_pc = "start"
    /\ fdp_return = <<>>
    /\ fdp_spin = 0

\* lines 48-49: lines = diff.split("\n"); i = 0
FdpStart ==
    /\ fdp_pc = "start"
    /\ UNCHANGED notFdp
    /\ fdp_lines' = Split(fdp_diff)
    /\ fdp_i' = 0
    /\ fdp_pc' = "outer"
    /\ UNCHANGED <<fdp_spin, fdp_diff, fdp_file_path, fdp_line_number, fdp_return>>

\* line 52: lines[i].startswith("diff --git") and f"b/{file_path}" in lines[i]
HeaderMatches(line, file_path) ==
    /\ StartsWith(line, DiffGit)
    /\ Contains(line, <<"b", "/">> \o file_path)

\* lines 50-53: the header of the requested file is found
FdpOuterMatch ==
    /\ fdp_pc = "outer"
    /\ UNCHANGED notFdp
    /\ fdp_i < Len(fdp_lines)
    /\ HeaderMatches(fdp_lines[fdp_i + 1], fdp_file_path)
    /\ fdp_i' = fdp_i + 1
    /\ fdp_pc' = "inner"
    /\ UNCHANGED <<fdp_spin, fdp_diff, fdp_file_path, fdp_line_number, fdp_lines, fdp_return>>

\* lines 50-52, 91-92: any other line of the outer loop
FdpOuterSkip ==
    /\ fdp_pc = "outer"
    /\ UNCHANGED notFdp
    /\ fdp_i < Len(fdp_lines)
    /\ ~HeaderMatches(fdp_lines[fdp_i + 1], fdp_file_path)
    /\ fdp_i' = fdp_i + 1
    /\ UNCHANGED <<fdp_spin, fdp_diff, fdp_file_path, fdp_line_number, fdp_lines, fdp_pc,
                   fdp_return>>

\* lines 50, 93: the outer loop ends, return None
FdpOuterExit ==
    /\ fdp_pc = "outer"
    /\ UNCHANGED notFdp
    /\ fdp_i >= Len(fdp_lines)
    /\ fdp_return' = <<>>
    /\ fdp_pc' = "done"
    /\ UNCHANGED <<fdp_spin, fdp_diff, fdp_file_path, fdp_line_number, fdp_lines, fdp_i>>

\* lines 64-70: the index after the lines collected into hunk_lines from index j
RECURSIVE HunkEnd(_, _)
HunkEnd(lines, j) ==
    IF /\ j < Len(lines)
       /\ ~StartsWith(lines[j + 1], AtAt)
       /\ ~StartsWith(lines[j + 1], DiffGit)
    THEN HunkEnd(lines, j + 1)
    ELSE j

\* lines 75-86: the for loop over hunk_lines from its k-th line on
RECURSIVE HunkScan(_, _, _, _, _)
HunkScan(hunk_lines, k, current_line, position, line_number) ==
    IF k > Len(hunk_lines) THEN <<>>
    ELSE IF StartsWith(hunk_lines[k], Plus)
    THEN IF current_line = line_number
         THEN <<position>>
         ELSE HunkScan(hunk_lines, k + 1, current_line + 1, position + 1, line_number)
    ELSE IF StartsWith(hunk_lines[k], Minus)
    THEN HunkScan(hunk_lines, k + 1, current_line, position + 1, line_number)
    ELSE HunkScan(hunk_lines, k + 1, current_line + 1, position + 1, line_number)

\* lines 56-86: a hunk header that matches; the hunk is collected and scanned
FdpHunk ==
    /\ fdp_pc = "inner"
    /\ UNCHANGED notFdp
    /\ fdp_i < Len(fdp_lines)
    /\ StartsWith(fdp_lines[fdp_i + 1], AtAt)
    /\ HunkHeaderMatch(fdp_lines[fdp_i + 1]) # <<>>
    /\ LET hunk_start == HunkHeaderMatch(fdp_lines[fdp_i + 1])[1]
           end == HunkEnd(fdp_lines, fdp_i + 1)
           hunk_lines == SubSeq(fdp_lines, fdp_i + 2, end)
           found == HunkScan(hunk_lines, 1, hunk_start, 1, fdp_line_number)
       IN  IF found # <<>>
           THEN /\ fdp_return' = found
                /\ fdp_pc' = "done"
                /\ fdp_i' = end
           ELSE /\ fdp_i' = end
                /\ UNCHANGED <<fdp_pc, fdp_return>>
    /\ UNCHANGED <<fdp_spin, fdp_diff, fdp_file_path, fdp_line_number, fdp_lines>>

\* lines 56-59: a line that starts with "@@" and does not match: nothing is
\* assigned, and the inner loop tests the same line again
FdpBadHunk ==
    /\ fdp_pc = "inner"
    /\ UNCHANGED notFdp
    /\ fdp_i < Len(fdp_lines)
    /\ StartsWith(fdp_lines[fdp_i + 1], AtAt)
    /\ HunkHeaderMatch(fdp_lines[fdp_i + 1]) = <<>>
    /\ fdp_spin' = 1 - fdp_spin
    /\ UNCHANGED <<fdp_diff, fdp_file_path, fdp_line_number, fdp_lines, fdp_i, fdp_pc,
                   fdp_return>>

\* FdpBreak changed: the next file header ends the whole search with None
FdpBreakEndsSearch ==
    /\ fdp_pc = "inner"
    /\ UNCHANGED notFdp
    /\ fdp_i < Len(fdp_lines)
    /\ ~StartsWith(fdp_lines[fdp_i + 1], AtAt)
    /\ StartsWith(fdp_lines[fdp_i + 1], DiffGit)
    /\ fdp_return' = <<>>
    /\ fdp_pc' = "done"
    /\ UNCHANGED <<fdp_spin, fdp_diff, fdp_file_path, fdp_line_number, fdp_lines, fdp_i>>

\* lines 87-88: the next file header ends the inner loop
FdpBreak ==
    /\ fdp_pc = "inner"
    /\ UNCHANGED notFdp
    /\ fdp_i < Len(fdp_lines)
    /\ ~StartsWith(fdp_lines[fdp_i + 1], AtAt)
    /\ StartsWith(fdp_lines[fdp_i + 1], DiffGit)
    /\ fdp_pc' = "outer"
    /\ UNCHANGED <<fdp_spin, fdp_diff, fdp_file_path, fdp_line_number, fdp_lines, fdp_i,
                   fdp_return>>

\* lines 89-90: any other line of the section
FdpInnerSkip ==
    /\ fdp_pc = "inner"
    /\ UNCHANGED notFdp
    /\ fdp_i < Len(fdp_lines)
    /\ ~StartsWith(fdp_lines[fdp_i + 1], AtAt)
    /\ ~StartsWith(fdp_lines[fdp_i + 1], DiffGit)
    /\ fdp_i' = fdp_i + 1
    /\ UNCHANGED <<fdp_spin, fdp_diff, fdp_file_path, fdp_line_number, fdp_lines, fdp_pc,
                   fdp_return>>

\* line 55: the inner loop ends at the end of the lines
FdpInnerExit ==
    /\ fdp_pc = "inner"
    /\ UNCHANGED notFdp
    /\ fdp_i >= Len(fdp_lines)
    /\ fdp_pc' = "outer"
    /\ UNCHANGED <<fdp_spin, fdp_diff, fdp_file_path, fdp_line_number, fdp_lines, fdp_i,
                   fdp_return>>

FdpNext ==
    \/ FdpStart
    \/ FdpOuterMatch
    \/ FdpOuterSkip
    \/ FdpOuterExit
    \/ FdpHunk
    \/ FdpBadHunk
    \/ FdpBreak
    \/ FdpInnerSkip
    \/ FdpInnerExit

SpecFdp == FdpInit /\ [][FdpNext]_vars

\* The lines of the diffs of the runs that are followed to their end.
FdpRunPool ==
    { DiffHeader(PathT),
      <<"@", "@", " ", "-", "1", " ", "+", "1", " ", "@", "@">>,
      <<"@", "@", " ", "+", "1", " ", "@", "@">>,
      <<"+", "n">>,
      <<" ", "c">> }

FdpRunInit ==
    /\ WhIdle
    /\ PcwIdle
    /\ CbIdle
    /\ GhIdle
    /\ VwsIdle
    /\ PcsIdle
    /\ PdsIdle
    /\ AsIdle
    /\ fdp_diff \in
          { Join(ls) : ls \in UNION { [1..n -> FdpRunPool] : n \in 1..MaxRunLines } }
    /\ fdp_file_path = PathT
    /\ fdp_line_number \in 1..2
    /\ fdp_lines = <<>>
    /\ fdp_i = 0
    /\ fdp_pc = "start"
    /\ fdp_return = <<>>
    /\ fdp_spin = 0

\* The interpreter runs the call to its end: a step that can be taken is taken.
SpecFdpFair == FdpRunInit /\ [][FdpNext]_vars /\ WF_vars(FdpNext)

-----------------------------------------------------------------------------
\* What a diff says, read off its lines without running the loops.

Min(S) == CHOOSE x \in S : \A y \in S : x <= y

\* a line that ends a hunk body
IsBoundary(line) == StartsWith(line, AtAt) \/ StartsWith(line, DiffGit)

\* the index of the file header whose section holds line k, 0 when there is none
SectionOf(ls, k) ==
    LET H == { h \in 1..k : StartsWith(ls[h], DiffGit) }
    IN  IF H = {} THEN 0 ELSE CHOOSE h \in H : \A g \in H : g <= h

\* the well-formed hunk headers of the section whose file header is line h
HunksOf(ls, h) ==
    { k \in (h + 1)..Len(ls) : HunkHeaderMatch(ls[k]) # <<>> /\ SectionOf(ls, k) = h }

\* the indices of the body lines of the hunk whose header is line k
BodyOf(ls, k) ==
    { j \in (k + 1)..Len(ls) : \A m \in (k + 1)..j : ~IsBoundary(ls[m]) }

\* the new-file line number of body line j of the hunk whose header is line k
NewLineNo(ls, k, j) ==
    HunkHeaderMatch(ls[k])[1]
        + Cardinality({ m \in (k + 1)..(j - 1) : ~StartsWith(ls[m], Minus) })

\* the positions, in the hunk whose header is line k, of the Added lines whose
\* new-file line number is t
AddedAt(ls, k, t) ==
    { j - k : j \in { j \in BodyOf(ls, k) :
                        StartsWith(ls[j], Plus) /\ NewLineNo(ls, k, j) = t } }

\* the positions of the Added lines numbered t in the sections whose file header
\* is one of the lines H
AddedIn(ls, H, t) ==
    UNION { AddedAt(ls, k, t) : k \in UNION { HunksOf(ls, h) : h \in H } }

KnownPaths == { PathT, PathTBak, TestPath }

\* a unified diff in standard form: it starts with a file header, every file
\* header is "diff --git a/<p> b/<p>" and no path has two sections, every "@@"
\* line is a hunk header, and every other line is a body line of a hunk
WellFormedDiff(ls) ==
    /\ StartsWith(ls[1], DiffGit)
    /\ \A k \in 1..Len(ls) :
          /\ StartsWith(ls[k], DiffGit) =>
                /\ \E p \in KnownPaths : ls[k] = DiffHeader(p)
                /\ \A j \in 1..Len(ls) : ls[j] = ls[k] => j = k
          /\ StartsWith(ls[k], AtAt) => HunkHeaderMatch(ls[k]) # <<>>
          /\ ~IsBoundary(ls[k]) =>
                /\ ~StartsWith(ls[k - 1], DiffGit)
                /\ \/ StartsWith(ls[k], Plus)
                   \/ StartsWith(ls[k], Minus)
                   \/ StartsWith(ls[k], <<" ">>)

\* the file headers of the requested file
SectionsOfFile(ls, file_path) ==
    { h \in 1..Len(ls) : ls[h] = DiffHeader(file_path) }

\* the file headers the search selects
MatchingSections(ls, file_path) ==
    { h \in 1..Len(ls) : HeaderMatches(ls[h], file_path) }

\* C1: for a well-formed diff the result is a position of an Added line numbered
\* line_number in a hunk of the section of file_path, and it is None exactly
\* when that section has no such line; the diff of the test gives 3 for line 2.
C1_ResolveContract ==
    fdp_pc = "done" =>
        /\ WellFormedDiff(fdp_lines) =>
              LET P == AddedIn(fdp_lines, SectionsOfFile(fdp_lines, fdp_file_path),
                               fdp_line_number)
              IN  /\ fdp_return = <<>> <=> P = {}
                  /\ fdp_return # <<>> => fdp_return[1] \in P
        /\ (fdp_diff = TestDiff /\ fdp_line_number = 2) => fdp_return = <<3>>

\* C6: the search terminates on every diff text, with a position or None.
C6_Terminates == <>(fdp_pc = "done")

\* C7 as stated: only the first section whose header matches is honored, a
\* position never comes from a later matching section.
C7_OnlyFirstSection ==
    (fdp_pc = "done" /\ fdp_return # <<>>) =>
        fdp_return[1] \in
            AddedIn(fdp_lines, { Min(MatchingSections(fdp_lines, fdp_file_path)) },
                    fdp_line_number)

\* the result the matching sections give when they are read in diff order
ResolveInOrder(ls, file_path, t) ==
    LET K == { k \in UNION { HunksOf(ls, h) : h \in MatchingSections(ls, file_path) } :
                 AddedAt(ls, k, t) # {} }
    IN  IF K = {} THEN <<>> ELSE <<Min(AddedAt(ls, Min(K), t))>>

\* C7 as amended: every section whose header matches is honored, in diff order:
\* the result is the position of the Added line numbered line_number in the
\* first hunk of a matching section that has one, and None when no matching
\* section has one.
C7_SectionsInOrder ==
    fdp_pc = "done" => fdp_return = ResolveInOrder(fdp_lines, fdp_file_path, fdp_line_number)

\* C7 witness: the search returned a position of a second matching section.
C7_LaterSectionHit ==
    /\ fdp_pc = "done"
    /\ fdp_return # <<>>
    /\ Cardinality(MatchingSections(fdp_lines, fdp_file_path)) >= 2
    /\ AddedIn(fdp_lines, { Min(MatchingSections(fdp_lines, fdp_file_path)) },
               fdp_line_number) = {}

\* C8: a section is selected only when its header ends with b/<file_path>.
C8_SuffixMatch ==
    [][(fdp_pc = "outer" /\ fdp_pc' = "inner") =>
          EndsWith(fdp_lines[fdp_i + 1], <<"b", "/">> \o fdp_file_path)]_vars

-----------------------------------------------------------------------------
\* parse_diff_for_suggestions(diff_text)

\* the characters str.strip() removes
Whitespace == { " ", NL, "\t", "\r" }

\* text.strip()
RECURSIVE Strip(_)
Strip(text) ==
    IF text = <<>> THEN text
    ELSE IF text[1] \in Whitespace THEN Strip(Tail(text))
    ELSE IF text[Len(text)] \in Whitespace THEN Strip(SubSeq(text, 1, Len(text) - 1))
    ELSE text

OldPathPrefix == <<"-", "-", "-", " ", "a", "/">>

\* PdsHeaderOk changed: the test of the first line is left out
PdsHeaderAny(lines) == TRUE

\* line 398: lines[0].startswith("--- a/") (lines is never empty)
PdsHeaderOk(lines) == StartsWith(lines[1], OldPathPrefix)

\* lines 401-404: the locals before the loop
PdsLocals0 ==
    [hunk_start |-> <<>>, suggestion_lines |-> <<>>, current_line |-> 0, line_num |-> 0]

\* lines 406-422: one pass of the for loop, on the locals st
PdsLoopBody(st, line) ==
    IF StartsWith(line, AtAt)
    THEN IF HunkHeaderMatch(line) # <<>>
         THEN [st EXCEPT !.hunk_start = HunkHeaderMatch(line),
                         !.current_line = HunkHeaderMatch(line)[1]]
         ELSE st
    ELSE IF st.hunk_start # <<>>
    THEN IF StartsWith(line, Plus)
         THEN [st EXCEPT !.line_num = IF st.suggestion_lines = <<>>
                                      THEN st.current_line ELSE @,
                         !.suggestion_lines = Append(@, DropFirst(line, 1)),
                         !.current_line = @ + 1]
         ELSE IF StartsWith(line, Minus)
         THEN st
         ELSE [st EXCEPT !.current_line = @ + 1]
    ELSE st

\* line 405: for line in lines, from the k-th line on
RECURSIVE PdsLoop(_, _, _)
PdsLoop(lines, k, st) ==
    IF k > Len(lines) THEN st ELSE PdsLoop(lines, k + 1, PdsLoopBody(st, lines[k]))

\* lines 395-425: <<>> is None, else <<(file_path, line_num, text)>>
ParseDiffForSuggestions(diff_text) ==
    LET lines == Split(Strip(diff_text))
    IN  IF ~PdsHeaderOk(lines) THEN <<>>
        ELSE LET file_path == DropFirst(lines[1], Len(OldPathPrefix))
                 st == PdsLoop(lines, 1, PdsLocals0)
             IN  IF st.suggestion_lines # <<>>
                 THEN << <<file_path, st.line_num, Join(st.suggestion_lines)>> >>
                 ELSE <<>>

\* The lines the bounded blocks are made of.
PdsLinePool ==
    { <<"-", "-", "-", " ", "a", "/", "t", ".", "p", "y">>,
      <<"+", "+", "+", " ", "b", "/", "t", ".", "p", "y">>,
      <<"@", "@", " ", "-", "1", ",", "1", " ", "+", "1", ",", "1", " ", "@", "@">>,
      <<"@", "@", " ", "-", "4", " ", "+", "2", ",", "2", " ", "@", "@">>,
      <<"@", "@", " ", "+", "1", " ", "@", "@">>,
      <<"+", "n">>,
      <<"+", "m", " ">>,
      <<"-", "o">>,
      <<" ", "c">>,
      <<>> }

\* The block of test_parse_diff_for_suggestions_valid.
TestBlock ==
    Join(<< <<"-", "-", "-", " ", "a", "/", "t", "e", "s", "t", ".", "p", "y">>,
            <<"+", "+", "+", " ", "b", "/", "t", "e", "s", "t", ".", "p", "y">>,
            <<"@", "@", " ", "-", "1", ",", "1", " ", "+", "1", ",", "1", " ", "@", "@">>,
            <<"-", "o", "l", "d", " ", "l", "i", "n", "e">>,
            <<"+", "n", "e", "w", " ", "l", "i", "n", "e">> >>)

\* The text of test_parse_diff_for_suggestions_invalid.
TestNotADiff == <<"n", "o", "t", " ", "a", " ", "d", "i", "f", "f">>

PdsBlocks ==
    { Join(ls) : ls \in UNION { [1..n -> PdsLinePool] : n \in 1..MaxBlockLines } }
        \cup { TestBlock, TestNotADiff }

PdsInit ==
    /\ WhIdle
    /\ PcwIdle
    /\ CbIdle
    /\ GhIdle
    /\ VwsIdle
    /\ FdpIdle
    /\ AsIdle
    /\ PcsIdle
    /\ pds_diff_text \in PdsBlocks
    /\ pds_pc = "call"
    /\ pds_return = <<>>

\* the call returns
PdsCall ==
    /\ pds_pc = "call"
    /\ pds_return' = ParseDiffForSuggestions(pds_diff_text)
    /\ pds_pc' = "done"
    /\ UNCHANGED pds_diff_text
    /\ UNCHANGED notPds

PdsNext == PdsCall

SpecPds == PdsInit /\ [][PdsNext]_vars

-----------------------------------------------------------------------------
\* What a block says, read off its lines.

Max(S) == CHOOSE x \in S : \A y \in S : y <= x

\* the hunk headers of the lines ls
HeadersIn(ls) == { k \in 1..Len(ls) : HunkHeaderMatch(ls[k]) # <<>> }

\* the '+'-prefixed lines of ls that come after a hunk header
AddedAfterHeader(ls) ==
    { j \in 1..Len(ls) : StartsWith(ls[j], Plus) /\ \E k \in HeadersIn(ls) : k < j }

\* the elements of the set S of indices, in ascending order
RECURSIVE Ascending(_)
Ascending(S) == IF S = {} THEN <<>> ELSE <<Min(S)>> \o Ascending(S \ {Min(S)})

\* the new-file line number of the first added line of ls
FirstAddedLineNo(ls) ==
    LET j == Min(AddedAfterHeader(ls))
        k == Max({ h \in HeadersIn(ls) : h < j })
    IN  HunkHeaderMatch(ls[k])[1]
            + Cardinality({ m \in (k + 1)..(j - 1) :
                              ~StartsWith(ls[m], Minus) /\ ~StartsWith(ls[m], AtAt) })

\* the added lines of ls without their '+', joined by newlines
AddedText(ls) ==
    LET A == Ascending(AddedAfterHeader(ls))
    IN  Join([n \in 1..Len(A) |-> DropFirst(ls[A[n]], 1)])

\* the suggestion the lines ls describe
SuggestionOf(ls) ==
    <<DropFirst(ls[1], Len(OldPathPrefix)), FirstAddedLineNo(ls), AddedText(ls)>>

TestSuggestion ==
    << <<"t", "e", "s", "t", ".", "p", "y">>, 1,
       <<"n", "e", "w", " ", "l", "i", "n", "e">> >>

\* C9: for a block whose first line is "--- a/<path>" the result is the path, the
\* new-file line number of the first added line after a hunk header, and the
\* added lines without their '+' joined by newlines; the block of the test
\* gives ("test.py", 1, "new line").
C9_ParsedSuggestion ==
    pds_pc = "done" =>
        LET ls == Split(pds_diff_text)
        IN  /\ (StartsWith(ls[1], OldPathPrefix) /\ AddedAfterHeader(ls) # {}) =>
                  pds_return = <<SuggestionOf(ls)>>
            /\ pds_diff_text = TestBlock => pds_return = <<TestSuggestion>>

-----------------------------------------------------------------------------
\* apply_suggestions_to_pr(repo, pr, suggestions), create_commit_with_changes

\* str(n) of a natural number n
RECURSIVE IntToStr(_)
IntToStr(n) ==
    IF n < Len(DigitChars) THEN <<DigitChars[n + 1]>>
    ELSE IntToStr(n \div Len(DigitChars)) \o <<DigitChars[(n % Len(DigitChars)) + 1]>>

PathNew == <<"n", ".", "p", "y">>

ContentT == <<"x", NL, "y">>

\* The file content of the apply tests.
TestContent ==
    <<"l", "i", "n", "e", " ", "1", NL, "l", "i", "n", "e", " ", "2", NL,
      "l", "i", "n", "e", " ", "3">>

\* lines 595-600: repo.get_contents(file_path, ref=pr.head.sha), decoded; <<>>
\* when it raises (the file does not exist)
HeadContent(file_path) ==
    IF file_path = PathT THEN <<ContentT>>
    ELSE IF file_path = TestPath THEN <<TestContent>>
    ELSE <<>>

\* The suggestions of test_apply_suggestions_single_line, _multi_line and
\* _out_of_bounds.
TestSingle ==
    << <<TestPath, <<"1">>,
         <<"n", "e", "w", " ", "l", "i", "n", "e", " ", "c", "o", "n", "t", "e",
           "n", "t">> >> >>

TestMulti ==
    << <<TestPath, <<"2">>,
         <<"n", "e", "w", " ", "l", "i", "n", "e", " ", "1", NL,
           "n", "e", "w", " ", "l", "i", "n", "e", " ", "2", NL,
           "n", "e", "w", " ", "l", "i", "n", "e", " ", "3">> >> >>

TestOutOfBounds ==
    << <<TestPath, <<"1", "0">>,
         <<"n", "e", "w", " ", "c", "o", "n", "t", "e", "n", "t">> >> >>

\* The replacement texts and the suggestions of the bounded lists.
AsTexts == { <<"a">>, <<"b", NL, "c">> }

AsSuggestions ==
    { <<p, IntToStr(n), t>> : p \in { PathT, PathNew }, n \in 0..MaxLine, t \in AsTexts }

AsInputs ==
    UNION { [1..n -> AsSuggestions] : n \in 0..MaxSuggestions }
        \cup { TestSingle, TestMulti, TestOutOfBounds }

AsInit ==
    /\ WhIdle
    /\ PcwIdle
    /\ CbIdle
    /\ GhIdle
    /\ VwsIdle
    /\ FdpIdle
    /\ PdsIdle
    /\ PcsIdle
    /\ RepoInit
    /\ as_suggestions \in AsInputs
    /\ as_pc = "start"
    /\ as_head_ref = HeadSha
    /\ as_groups = <<>>
    /\ as_f = 0
    /\ as_current_content = <<>>
    /\ as_suggs = <<>>
    /\ as_k = 0
    /\ as_lines = <<>>
    /\ as_offset = 0
    /\ as_applied = FALSE
    /\ as_changes = <<>>

\* line 589: suggestion_groups[file_path].append((int(line), suggestion))
AddToGroups(groups, s) ==
    LET edit == <<ToInt(s[2]), s[3]>>
        G == { g \in 1..Len(groups) : groups[g][1] = s[1] }
    IN  IF G = {}
        THEN Append(groups, <<s[1], <<edit>> >>)
        ELSE LET g == CHOOSE g \in G : TRUE
             IN  [groups EXCEPT ![g] = <<groups[g][1], Append(groups[g][2], edit)>>]

\* lines 587-589: the groups of the suggestions from the k-th on, added to groups
RECURSIVE GroupByFile(_, _, _)
GroupByFile(suggestions, k, groups) ==
    IF k > Len(suggestions) THEN groups
    ELSE GroupByFile(suggestions, k + 1, AddToGroups(groups, suggestions[k]))

\* line 605: suggs.sort(key=lambda x: x[0]), a stable sort
RECURSIVE SortByLine(_)
SortByLine(suggs) ==
    IF Len(suggs) <= 1 THEN suggs
    ELSE LET rest == SortByLine(SubSeq(suggs, 1, Len(suggs) - 1))
             x == suggs[Len(suggs)]
             n == Cardinality({ j \in 1..Len(rest) : rest[j][1] <= x[1] })
         IN  SubSeq(rest, 1, n) \o <<x>> \o SubSeq(rest, n + 1, Len(rest))

\* lines 584-589: the head ref is read and the suggestions are grouped by file
AsStart ==
    /\ as_pc = "start"
    /\ as_head_ref' = repo_ref
    /\ as_groups' = GroupByFile(as_suggestions, 1, <<>>)
    /\ as_f' = 1
    /\ as_changes' = <<>>
    /\ as_pc' = "files"
    /\ UNCHANGED <<as_suggestions, as_current_content, as_suggs, as_k, as_lines,
                   as_offset, as_applied>>
    /\ UNCHANGED <<repoVars, notAs>>

\* AsFileBegin changed: the edits are taken in the order they were supplied
AsFileBeginUnsorted ==
    /\ as_pc = "files"
    /\ as_f <= Len(as_groups)
    /\ LET content == HeadContent(as_groups[as_f][1])
           current_content == IF content = <<>> THEN <<>> ELSE content[1]
       IN  /\ as_current_content' = current_content
           /\ as_lines' = Split(current_content)
    /\ as_suggs' = as_groups[as_f][2]
    /\ as_k' = 1
    /\ as_offset' = 0
    /\ as_applied' = FALSE
    /\ as_pc' = "edits"
    /\ UNCHANGED <<as_suggestions, as_head_ref, as_groups, as_f, as_changes>>
    /\ UNCHANGED <<repoVars, notAs>>

\* lines 593-608: the next file: its content is read and split, its edits sorted
AsFileBegin ==
    /\ as_pc = "files"
    /\ as_f <= Len(as_groups)
    /\ LET content == HeadContent(as_groups[as_f][1])
           current_content == IF content = <<>> THEN <<>> ELSE content[1]
       IN  /\ as_current_content' = current_content
           /\ as_lines' = Split(current_content)
    /\ as_suggs' = SortByLine(as_groups[as_f][2])
    /\ as_k' = 1
    /\ as_offset' = 0
    /\ as_applied' = FALSE
    /\ as_pc' = "edits"
    /\ UNCHANGED <<as_suggestions, as_head_ref, as_groups, as_f, as_changes>>
    /\ UNCHANGED <<repoVars, notAs>>

\* lines 610-612: adjusted_line of the edit the inner loop is at
AdjustedLine == as_suggs[as_k][1] - 1 + as_offset

\* InBounds changed: the test 0 <= adjusted_line is left out
InBoundsUpperOnly == AdjustedLine < Len(as_lines)

\* line 614: 0 <= adjusted_line < len(lines)
InBounds == 0 <= AdjustedLine /\ AdjustedLine < Len(as_lines)

\* AsEditSkip changed: an edit out of bounds ends the loop over the file's edits
AsEditSkipEndsBatch ==
    /\ as_pc = "edits"
    /\ as_k <= Len(as_suggs)
    /\ ~InBounds
    /\ as_k' = Len(as_suggs) + 1
    /\ UNCHANGED <<as_suggestions, as_pc, as_head_ref, as_groups, as_f,
                   as_current_content, as_suggs, as_lines, as_offset, as_applied,
                   as_changes>>
    /\ UNCHANGED <<repoVars, notAs>>

\* lines 609-618: an edit out of bounds is skipped
AsEditSkip ==
    /\ as_pc = "edits"
    /\ as_k <= Len(as_suggs)
    /\ ~InBounds
    /\ as_k' = as_k + 1
    /\ UNCHANGED <<as_suggestions, as_pc, as_head_ref, as_groups, as_f,
                   as_current_content, as_suggs, as_lines, as_offset, as_applied,
                   as_changes>>
    /\ UNCHANGED <<repoVars, notAs>>

\* lines 624-628: lines[:adjusted_line] + sugg_lines + lines[adjusted_line + num_old:]
Spliced(lines, adjusted_line, sugg_lines, num_old) ==
    SubSeq(lines, 1, adjusted_line) \o sugg_lines \o DropFirst(lines, adjusted_line + num_old)

\* AsEditApply changed: offset is not updated
AsEditApplyKeepsOffset ==
    /\ as_pc = "edits"
    /\ as_k <= Len(as_suggs)
    /\ InBounds
    /\ as_lines' = Spliced(as_lines, AdjustedLine, Split(as_suggs[as_k][2]), 1)
    /\ as_applied' = TRUE
    /\ as_k' = as_k + 1
    /\ UNCHANGED <<as_suggestions, as_pc, as_head_ref, as_groups, as_f,
                   as_current_content, as_suggs, as_offset, as_changes>>
    /\ UNCHANGED <<repoVars, notAs>>

\* AsEditApply changed: as many old lines are replaced as the suggestion has lines
AsEditApplyReplacesNumNew ==
    /\ as_pc = "edits"
    /\ as_k <= Len(as_suggs)
    /\ InBounds
    /\ LET sugg_lines == Split(as_suggs[as_k][2])
           num_old == Len(sugg_lines)
           num_new == Len(sugg_lines)
       IN  /\ as_lines' = Spliced(as_lines, AdjustedLine, sugg_lines, num_old)
           /\ as_offset' = as_offset + num_new - num_old
    /\ as_applied' = TRUE
    /\ as_k' = as_k + 1
    /\ UNCHANGED <<as_suggestions, as_pc, as_head_ref, as_groups, as_f,
                   as_current_content, as_suggs, as_changes>>
    /\ UNCHANGED <<repoVars, notAs>>

\* lines 609-630: an edit in bounds replaces one line by the lines of its text
AsEditApply ==
    /\ as_pc = "edits"
    /\ as_k <= Len(as_suggs)
    /\ InBounds
    /\ LET sugg_lines == Split(as_suggs[as_k][2])
           num_old == 1
           num_new == Len(sugg_lines)
       IN  /\ as_lines' = Spliced(as_lines, AdjustedLine, sugg_lines, num_old)
           /\ as_offset' = as_offset + num_new - num_old
    /\ as_applied' = TRUE
    /\ as_k' = as_k + 1
    /\ UNCHANGED <<as_suggestions, as_pc, as_head_ref, as_groups, as_f,
                   as_current_content, as_suggs, as_changes>>
    /\ UNCHANGED <<repoVars, notAs>>

\* AsFileEnd changed: the file is put into changes whether or not an edit applied
AsFileEndAlwaysChanged ==
    /\ as_pc = "edits"
    /\ as_k > Len(as_suggs)
    /\ as_changes' = Append(as_changes, <<as_groups[as_f][1], Join(as_lines)>>)
    /\ as_f' = as_f + 1
    /\ as_pc' = "files"
    /\ UNCHANGED <<as_suggestions, as_head_ref, as_groups, as_current_content, as_suggs,
                   as_k, as_lines, as_offset, as_applied>>
    /\ UNCHANGED <<repoVars, notAs>>

\* lines 609, 632-633: the edits of the file are done; the new content goes into
\* changes when an edit applied
AsFileEnd ==
    /\ as_pc = "edits"
    /\ as_k > Len(as_suggs)
    /\ as_changes' = IF as_applied
                     THEN Append(as_changes, <<as_groups[as_f][1], Join(as_lines)>>)
                     ELSE as_changes
    /\ as_f' = as_f + 1
    /\ as_pc' = "files"
    /\ UNCHANGED <<as_suggestions, as_head_ref, as_groups, as_current_content, as_suggs,
                   as_k, as_lines, as_offset, as_applied>>
    /\ UNCHANGED <<repoVars, notAs>>

\* lines 635-641, 516-540: create_commit_with_changes: one blob for each changed
\* file, a tree on the tree of the commit head_ref was read at, a commit on that
\* commit, and the branch ref is moved to it; branch_ref.edit(commit.sha) is
\* called without force, an update that the API makes only when it is a
\* fast-forward, that is, when the branch is still where head_ref was read
AsCommit ==
    /\ as_pc = "files"
    /\ as_f > Len(as_groups)
    /\ as_changes # <<>>
    /\ repo_ref = as_head_ref
    /\ repo_blobs' = repo_blobs \o [n \in 1..Len(as_changes) |-> as_changes[n][2]]
    /\ repo_trees' =
          Append(repo_trees,
                 [base_tree |-> as_head_ref,
                  entries |-> [n \in 1..Len(as_changes) |->
                                 <<as_changes[n][1], Len(repo_blobs) + n>>]])
    /\ repo_commits' =
          Append(repo_commits, [tree |-> Len(repo_trees) + 1, parent |-> as_head_ref])
    /\ repo_ref' = Len(repo_commits) + 1
    /\ as_pc' = "done"
    /\ UNCHANGED <<as_suggestions, as_head_ref, as_groups, as_f, as_current_content,
                   as_suggs, as_k, as_lines, as_offset, as_applied, as_changes>>
    /\ UNCHANGED notAs

\* line 635: changes is empty, nothing is committed
AsNoCommit ==
    /\ as_pc = "files"
    /\ as_f > Len(as_groups)
    /\ as_changes = <<>>
    /\ as_pc' = "done"
    /\ UNCHANGED <<as_suggestions, as_head_ref, as_groups, as_f, as_current_content,
                   as_suggs, as_k, as_lines, as_offset, as_applied, as_changes>>
    /\ UNCHANGED <<repoVars, notAs>>

\* lines 584, 645-646: reading the ref of the PR branch raises; the exception is
\* logged and the call returns
AsGetRefFails ==
    /\ as_pc = "start"
    /\ as_pc' = "failed"
    /\ UNCHANGED <<as_suggestions, as_head_ref, as_groups, as_f, as_current_content,
                   as_suggs, as_k, as_lines, as_offset, as_applied, as_changes>>
    /\ UNCHANGED <<repoVars, notAs>>

\* lines 636, 518-543, 645-646: a call made by create_commit_with_changes raises:
\* the blobs, the tree and the commit created before it stay, the branch ref is
\* not moved; the exception is logged and the call returns
AsCommitFails ==
    /\ as_pc = "files"
    /\ as_f > Len(as_groups)
    /\ as_changes # <<>>
    /\ \E blobs \in 0..Len(as_changes), tree \in BOOLEAN, commit \in BOOLEAN :
          /\ tree => blobs = Len(as_changes)
          /\ commit => tree
          /\ repo_blobs' = repo_blobs \o [n \in 1..blobs |-> as_changes[n][2]]
          /\ repo_trees' =
                IF tree
                THEN Append(repo_trees,
                            [base_tree |-> as_head_ref,
                             entries |-> [n \in 1..Len(as_changes) |->
                                            <<as_changes[n][1], Len(repo_blobs) + n>>]])
                ELSE repo_trees
          /\ repo_commits' =
                IF commit
                THEN Append(repo_commits,
                            [tree |-> Len(repo_trees) + 1, parent |-> as_head_ref])
                ELSE repo_commits
    /\ as_pc' = "failed"
    /\ UNCHANGED <<as_suggestions, as_head_ref, as_groups, as_f, as_current_content,
                   as_suggs, as_k, as_lines, as_offset, as_applied, as_changes>>
    /\ UNCHANGED <<repo_ref, notAs>>

AsNext ==
    \/ AsGetRefFails
    \/ AsCommitFails
    \/ AsStart
    \/ AsFileBegin
    \/ AsEditSkip
    \/ AsEditApply
    \/ AsFileEnd
    \/ AsCommit
    \/ AsNoCommit

SpecApply == AsInit /\ [][AsNext]_vars

\* The contents that another commit gives a file.
PushedContents == { <<"p", NL, "y">>, <<"x", NL, "y", NL, "q">> }

\* While the call is under way another commit is pushed to the PR branch (by a
\* user, or by a second run of apply_suggestions_to_pr for the same PR): a commit
\* on the head of the branch that changes one file, and the branch is moved to
\* it. The call reads the branch at line 584 and the files at pr.head.sha at
\* line 596; the push can come before, between or after these reads.
Push ==
    /\ as_pc \in { "start", "files", "edits" }
    /\ Len(repo_commits) < MaxCommits
    /\ \E path \in { PathT, PathNew }, content \in PushedContents :
          /\ repo_blobs' = Append(repo_blobs, content)
          /\ repo_trees' =
                Append(repo_trees,
                       [base_tree |-> repo_ref,
                        entries |-> << <<path, Len(repo_blobs) + 1>> >>])
    /\ repo_commits' =
          Append(repo_commits, [tree |-> Len(repo_trees) + 1, parent |-> repo_ref])
    /\ repo_ref' = Len(repo_commits) + 1
    /\ UNCHANGED <<asVars, notAs>>

RaceNext ==
    \/ AsNext
    \/ Push

SpecRace == AsInit /\ [][RaceNext]_vars

-----------------------------------------------------------------------------
\* What a batch of edits says, read off the original lines.

\* the target line is a line of the original file
InRange(edit, orig) == 1 <= edit[1] /\ edit[1] <= Len(orig)

\* no two edits of the batch have the same target line
DistinctTargets(batch) ==
    \A i, j \in 1..Len(batch) : batch[i][1] = batch[j][1] => i = j

\* the target lines of the batch ascend strictly
AscendingTargets(batch) ==
    \A i, j \in 1..Len(batch) : i < j => batch[i][1] < batch[j][1]

\* the original lines from the i-th on, each targeted line replaced by the lines
\* of its replacement text
RECURSIVE ReplacedFrom(_, _, _)
ReplacedFrom(orig, batch, i) ==
    IF i > Len(orig) THEN <<>>
    ELSE LET J == { j \in 1..Len(batch) : batch[j][1] = i }
         IN  (IF J = {} THEN <<orig[i]>> ELSE Split(batch[CHOOSE j \in J : TRUE][2]))
                 \o ReplacedFrom(orig, batch, i + 1)

\* the sum, over the edits of the batch in range, of (replacement lines - 1)
RECURSIVE Growth(_, _)
Growth(orig, batch) ==
    IF batch = <<>> THEN 0
    ELSE (IF InRange(batch[1], orig) THEN Len(Split(batch[1][2])) - 1 ELSE 0)
             + Growth(orig, Tail(batch))

\* lines 593, 609: the loops are at an edit, or past the last edit of the file
AtEdit == as_pc = "edits" /\ as_k <= Len(as_suggs)
EditsDone == as_pc = "edits" /\ as_k > Len(as_suggs)

TestSingleResult ==
    <<"n", "e", "w", " ", "l", "i", "n", "e", " ", "c", "o", "n", "t", "e", "n", "t", NL,
      "l", "i", "n", "e", " ", "2", NL, "l", "i", "n", "e", " ", "3">>

TestMultiResult ==
    <<"l", "i", "n", "e", " ", "1", NL,
      "n", "e", "w", " ", "l", "i", "n", "e", " ", "1", NL,
      "n", "e", "w", " ", "l", "i", "n", "e", " ", "2", NL,
      "n", "e", "w", " ", "l", "i", "n", "e", " ", "3", NL,
      "l", "i", "n", "e", " ", "3">>

\* C2: for a batch with distinct target lines, after the edits done so far the
\* lines are the original lines with each targeted line in range replaced by
\* the lines of its replacement, the others kept in order, and offset is the
\* sum of (replacement lines - 1) over the applied edits; the two test inputs
\* give the contents the tests expect.
C2_ReplacesTargetedLines ==
    /\ (as_pc = "edits" /\ DistinctTargets(as_suggs)) =>
          LET orig == Split(as_current_content)
              made == SubSeq(as_suggs, 1, as_k - 1)
          IN  /\ as_lines = ReplacedFrom(orig, made, 1)
              /\ as_offset = Growth(orig, made)
    /\ (as_pc = "done" /\ as_suggestions = TestSingle) =>
          /\ as_changes = << <<TestPath, TestSingleResult>> >>
          /\ repo_blobs = <<TestSingleResult>>
    /\ (as_pc = "done" /\ as_suggestions = TestMulti) =>
          /\ as_changes = << <<TestPath, TestMultiResult>> >>
          /\ repo_blobs = <<TestMultiResult>>

\* C2 witness: two edits with distinct target lines are applied, the first with
\* a replacement of more than one line.
C2_TwoEditsApplied ==
    /\ EditsDone
    /\ Len(as_suggs) = 2
    /\ DistinctTargets(as_suggs)
    /\ \A j \in 1..2 : InRange(as_suggs[j], Split(as_current_content))
    /\ Len(Split(as_suggs[1][2])) > 1

\* C3: an edit whose adjusted index is out of bounds changes neither the lines
\* nor the offset and the loop goes on with the next edit; an edit that is in
\* bounds at its turn is applied; after the last edit of a file the next file
\* is processed with all its edits.
C3_SkipAndContinue ==
    [][/\ (AtEdit /\ ~InBounds) =>
             /\ as_lines' = as_lines
             /\ as_offset' = as_offset
             /\ as_applied' = as_applied
             /\ as_changes' = as_changes
             /\ as_pc' = "edits" /\ as_k' = as_k + 1 /\ as_suggs' = as_suggs
       /\ (AtEdit /\ InBounds) =>
             /\ as_applied'
             /\ At(as_lines', AdjustedLine + 1, Split(as_suggs[as_k][2]))
             /\ Len(as_lines') = Len(as_lines) + Len(Split(as_suggs[as_k][2])) - 1
             /\ as_pc' = "edits" /\ as_k' = as_k + 1 /\ as_suggs' = as_suggs
       /\ EditsDone =>
             /\ as_pc' = "files" /\ as_f' = as_f + 1 /\ as_groups' = as_groups
       /\ (as_pc = "files" /\ as_f <= Len(as_groups)) =>
             /\ as_pc' = "edits" /\ as_k' = 1
             /\ Len(as_suggs') = Len(as_groups[as_f][2])
      ]_vars

\* C3 witness: an edit was skipped and a later edit of the same batch applied.
C3_SkippedThenApplied ==
    /\ as_pc = "edits"
    /\ as_applied
    /\ \E j \in 1..(as_k - 1) : ~InRange(as_suggs[j], Split(as_current_content))

\* C22: in the edit loop an edit is applied if and only if its target line is a
\* line of the original file, 1 <= target line <= original line count,
\* whatever the other edits of the batch are and did: an edit in range
\* replaces one line by the lines of its text, an edit out of range changes
\* nothing.
C22_AppliedIffInOriginalRange ==
    [][AtEdit =>
          LET orig == Split(as_current_content)
              sugg_lines == Split(as_suggs[as_k][2])
          IN  IF InRange(as_suggs[as_k], orig)
              THEN /\ as_applied'
                   /\ At(as_lines', AdjustedLine + 1, sugg_lines)
                   /\ Len(as_lines') = Len(as_lines) + Len(sugg_lines) - 1
                   /\ as_offset' = as_offset + Len(sugg_lines) - 1
              ELSE /\ as_lines' = as_lines
                   /\ as_offset' = as_offset
                   /\ as_applied' = as_applied
      ]_vars

\* C22 witness: after an edit of two lines made the line sequence longer than
\* the original, an edit whose target line is past the original's last line
\* and within the longer sequence was skipped.
C22_SkippedInsideDriftedLines ==
    /\ EditsDone
    /\ as_offset > 0
    /\ \E j \in 1..Len(as_suggs) :
          /\ ~InRange(as_suggs[j], Split(as_current_content))
          /\ 1 <= as_suggs[j][1]
          /\ as_suggs[j][1] <= Len(as_lines)
    /\ Len(as_lines) = Len(Split(as_current_content)) + as_offset

\* the content of the file at the commit, None when the commit has no such
\* file: the blob that the nearest tree from the commit back to pr.head.sha
\* holds for the path, or the content at pr.head.sha
RECURSIVE ContentAt(_, _)
ContentAt(commit, file_path) ==
    IF commit = HeadSha THEN HeadContent(file_path)
    ELSE LET tree == repo_trees[repo_commits[commit].tree]
             E == { n \in 1..Len(tree.entries) : tree.entries[n][1] = file_path }
         IN  IF E # {} THEN <<repo_blobs[tree.entries[CHOOSE n \in E : TRUE][2]]>>
             ELSE ContentAt(repo_commits[commit].parent, file_path)

\* C23: the commit that the call puts on the PR branch is built on the revision
\* the contents were read from: for every file it changes, the content of the
\* file at the commit's parent is the content the batch was applied to (the
\* content at pr.head.sha), so no change that another commit made to the file
\* is overwritten, whatever pushes come between.
C23_CommitOnRevisionRead ==
    (as_pc = "done" /\ as_changes # <<>>) =>
        /\ repo_commits[repo_ref].parent = as_head_ref
        /\ \A n \in 1..Len(as_changes) :
              /\ ContentAt(repo_ref, as_changes[n][1]) = <<as_changes[n][2]>>
              /\ ContentAt(as_head_ref, as_changes[n][1]) = HeadContent(as_changes[n][1])

\* every edit of the batch is out of range of the file at pr.head.sha
NoneInRange(file_path, batch) ==
    LET content == HeadContent(file_path)
        orig == Split(IF content = <<>> THEN <<>> ELSE content[1])
    IN  \A j \in 1..Len(batch) : ~InRange(batch[j], orig)

\* C4: when every edit of a file is out of bounds its content stays equal to
\* the input and the file is not put into changes; when this is so for every
\* file, no blob, tree or commit is created and the branch ref is not moved.
C4_NothingAppliedNothingCommitted ==
    /\ (EditsDone /\ NoneInRange(as_groups[as_f][1], as_suggs)) =>
          /\ ~as_applied
          /\ Join(as_lines) = as_current_content
    /\ \A g \in 1..Len(as_groups) :
          (g < as_f /\ NoneInRange(as_groups[g][1], as_groups[g][2])) =>
              \A n \in 1..Len(as_changes) : as_changes[n][1] # as_groups[g][1]
    /\ (as_pc = "done"
            /\ \A g \in 1..Len(as_groups) : NoneInRange(as_groups[g][1], as_groups[g][2])) =>
          /\ repo_blobs = <<>>
          /\ repo_trees = <<>>
          /\ repo_commits = <<>>
          /\ repo_ref = HeadSha

\* C4 witness: a call with suggestions, all out of bounds, has ended.
C4_AllSkipped ==
    /\ as_pc = "done"
    /\ as_suggestions # <<>>
    /\ \A g \in 1..Len(as_groups) : NoneInRange(as_groups[g][1], as_groups[g][2])

\* C5: for a batch with distinct, ascending target lines, none out of bounds,
\* the content produced has the original number of lines plus the sum of
\* (replacement lines - 1) over the edits.
C5_LineCount ==
    (/\ EditsDone
     /\ AscendingTargets(as_groups[as_f][2])
     /\ \A j \in 1..Len(as_suggs) : InRange(as_suggs[j], Split(as_current_content))) =>
        Len(Split(Join(as_lines)))
            = Len(Split(as_current_content))
                + Growth(Split(as_current_content), as_groups[as_f][2])

\* C5 witness: a batch of two such edits, one with a replacement of two lines.
C5_TwoEditsCounted ==
    /\ EditsDone
    /\ Len(as_suggs) = 2
    /\ AscendingTargets(as_groups[as_f][2])
    /\ \A j \in 1..2 : InRange(as_suggs[j], Split(as_current_content))
    /\ Len(Split(Join(as_lines))) > Len(Split(as_current_content))

-----------------------------------------------------------------------------
\* parse_code_suggestions(analysis)

\* text.find(sub, start): the 0-based index of the first occurrence of sub in
\* text at or after index start, -1 when there is none
Find(text, sub, start) ==
    LET K == { k \in (start + 1)..(Len(text) - Len(sub) + 1) : At(text, k, sub) }
    IN  IF K = {} THEN -1 ELSE Min(K) - 1

\* text[a:b] for 0 <= a <= b <= len(text)
Slice(text, a, b) == SubSeq(text, a + 1, b)

\* the character U+0060; a string of the module cannot hold it, so it is the
\* one character of the texts that is written by its name
Backtick == "backtick"

\* line 451: the start marker: three backticks, diff and a newline
FenceOpen == <<Backtick, Backtick, Backtick, "d", "i", "f", "f", NL>>

\* line 454: the end marker: a newline and three backticks
FenceClose == <<NL, Backtick, Backtick, Backtick>>

\* the block body surrounded by the two markers
Fenced(body) == FenceOpen \o body \o FenceClose

\* "--- a/<path>", "@@ -1 +<line> @@" and one '+' line for each line of text
DiffBlock(path, line, text) ==
    LET tl == Split(text)
    IN  Join(<<OldPathPrefix \o path,
               <<"@", "@", " ", "-", "1", " ", "+">> \o IntToStr(line) \o <<" ", "@", "@">> >>
             \o [n \in 1..Len(tl) |-> Plus \o tl[n]])

\* The pieces the bounded analysis texts are made of: the markers alone, block
\* bodies, fenced blocks that parse and one that does not.
PcsPiecePool ==
    { FenceOpen,
      FenceClose,
      <<"x">>,
      <<NL>>,
      DiffBlock(PathT, 1, <<"a">>),
      Fenced(DiffBlock(PathT, 1, <<"a">>)),
      Fenced(DiffBlock(PathT, 2, <<"b", NL, "c">>)),
      Fenced(<<"x">>) }

\* the pieces, one after the other
RECURSIVE Concat(_)
Concat(ps) == IF ps = <<>> THEN <<>> ELSE ps[1] \o Concat(Tail(ps))

PcsTexts ==
    { Concat(ps) : ps \in UNION { [1..n -> PcsPiecePool] : n \in 0..MaxPieces } }

\* Suggestions as parse_diff_for_suggestions returns them, and for each the
\* text that holds its block and nothing else.
PcsReturned ==
    { <<PathT, n, t>> : n \in 1..MaxLine, t \in AsTexts \cup { <<>>, <<"m", " ">> } }

PcsBlockTexts == { Fenced(DiffBlock(s[1], s[2], s[3])) : s \in PcsReturned }

PcsInit ==
    /\ WhIdle
    /\ PcwIdle
    /\ CbIdle
    /\ GhIdle
    /\ VwsIdle
    /\ FdpIdle
    /\ PdsIdle
    /\ AsIdle
    /\ pcs_analysis \in PcsTexts \cup PcsBlockTexts
    /\ pcs_pc = "scan"
    /\ pcs_start_pos = 0
    /\ pcs_diff_blocks = <<>>
    /\ pcs_n = 0
    /\ pcs_suggestions = <<>>

\* lines 451-453: no start marker from start_pos on: the scan ends
PcsNoStart ==
    /\ pcs_pc = "scan"
    /\ Find(pcs_analysis, FenceOpen, pcs_start_pos) = -1
    /\ pcs_start_pos' = -1
    /\ pcs_pc' = "parse"
    /\ pcs_n' = 1
    /\ UNCHANGED <<pcs_analysis, pcs_diff_blocks, pcs_suggestions>>
    /\ UNCHANGED notPcs

\* lines 451-456: a start marker and no end marker after it: the scan ends
PcsNoEnd ==
    /\ pcs_pc = "scan"
    /\ LET start_pos == Find(pcs_analysis, FenceOpen, pcs_start_pos)
       IN  /\ start_pos # -1
           /\ Find(pcs_analysis, FenceClose, start_pos + Len(FenceOpen)) = -1
           /\ pcs_start_pos' = start_pos
    /\ pcs_pc' = "parse"
    /\ pcs_n' = 1
    /\ UNCHANGED <<pcs_analysis, pcs_diff_blocks, pcs_suggestions>>
    /\ UNCHANGED notPcs

\* PcsBlock changed: the scan goes on at the end marker, not after it
PcsBlockResumesAtEndMarker ==
    /\ pcs_pc = "scan"
    /\ LET start_pos == Find(pcs_analysis, FenceOpen, pcs_start_pos)
           end_pos == Find(pcs_analysis, FenceClose, start_pos + Len(FenceOpen))
       IN  /\ start_pos # -1
           /\ end_pos # -1
           /\ pcs_diff_blocks' =
                 Append(pcs_diff_blocks,
                        Slice(pcs_analysis, start_pos + Len(FenceOpen), end_pos))
           /\ pcs_start_pos' = end_pos
    /\ UNCHANGED <<pcs_analysis, pcs_pc, pcs_n, pcs_suggestions>>
    /\ UNCHANGED notPcs

\* lines 451-459: a start marker and an end marker after it: the text between
\* them is a block and the scan goes on after the end marker
PcsBlock ==
    /\ pcs_pc = "scan"
    /\ LET start_pos == Find(pcs_analysis, FenceOpen, pcs_start_pos)
           end_pos == Find(pcs_analysis, FenceClose, start_pos + Len(FenceOpen))
       IN  /\ start_pos # -1
           /\ end_pos # -1
           /\ pcs_diff_blocks' =
                 Append(pcs_diff_blocks,
                        Slice(pcs_analysis, start_pos + Len(FenceOpen), end_pos))
           /\ pcs_start_pos' = end_pos + Len(FenceClose)
    /\ UNCHANGED <<pcs_analysis, pcs_pc, pcs_n, pcs_suggestions>>
    /\ UNCHANGED notPcs

\* lines 461-465: the block parses: (file_path, str(line), suggestion) is appended
PcsParseKeep ==
    /\ pcs_pc = "parse"
    /\ pcs_n <= Len(pcs_diff_blocks)
    /\ LET parsed == ParseDiffForSuggestions(pcs_diff_blocks[pcs_n])
       IN  /\ parsed # <<>>
           /\ pcs_suggestions' =
                 Append(pcs_suggestions,
                        <<parsed[1][1], IntToStr(parsed[1][2]), parsed[1][3]>>)
    /\ pcs_n' = pcs_n + 1
    /\ UNCHANGED <<pcs_analysis, pcs_pc, pcs_start_pos, pcs_diff_blocks>>
    /\ UNCHANGED notPcs

\* PcsParseDrop changed: a block that does not parse ends the for loop
PcsParseDropEndsLoop ==
    /\ pcs_pc = "parse"
    /\ pcs_n <= Len(pcs_diff_blocks)
    /\ ParseDiffForSuggestions(pcs_diff_blocks[pcs_n]) = <<>>
    /\ pcs_n' = Len(pcs_diff_blocks) + 1
    /\ UNCHANGED <<pcs_analysis, pcs_pc, pcs_start_pos, pcs_diff_blocks, pcs_suggestions>>
    /\ UNCHANGED notPcs

\* lines 461-463: the block does not parse: nothing is appended
PcsParseDrop ==
    /\ pcs_pc = "parse"
    /\ pcs_n <= Len(pcs_diff_blocks)
    /\ ParseDiffForSuggestions(pcs_diff_blocks[pcs_n]) = <<>>
    /\ pcs_n' = pcs_n + 1
    /\ UNCHANGED <<pcs_analysis, pcs_pc, pcs_start_pos, pcs_diff_blocks, pcs_suggestions>>
    /\ UNCHANGED notPcs

\* line 466: return suggestions
PcsReturn ==
    /\ pcs_pc = "parse"
    /\ pcs_n > Len(pcs_diff_blocks)
    /\ pcs_pc' = "done"
    /\ UNCHANGED <<pcs_analysis, pcs_start_pos, pcs_diff_blocks, pcs_n, pcs_suggestions>>
    /\ UNCHANGED notPcs

PcsNext ==
    \/ PcsNoStart
    \/ PcsNoEnd
    \/ PcsBlock
    \/ PcsParseKeep
    \/ PcsParseDrop
    \/ PcsReturn

SpecPcs == PcsInit /\ [][PcsNext]_vars

-----------------------------------------------------------------------------
\* What an analysis text says, read off its markers.

\* the (0-based) indices, from index from on, at which the marker occurs in text
MarkersFrom(text, marker, from) ==
    { p \in from..Len(text) : p >= 0 /\ At(text, p + 1, marker) }

\* C11: every step of the block scan takes the first start marker at or after
\* the place the scan is at and the first end marker that begins after that
\* start marker, emits the text strictly between them as the next block and
\* resumes right after the end marker, so the spans are disjoint and in text
\* order; when there is no start marker, or no end marker after it, nothing is
\* emitted and the scan is over.
C11_BlockScan ==
    [][pcs_pc = "scan" =>
          LET S == MarkersFrom(pcs_analysis, FenceOpen, pcs_start_pos)
          IN  IF S = {} \/ MarkersFrom(pcs_analysis, FenceClose, Min(S) + Len(FenceOpen)) = {}
              THEN /\ pcs_diff_blocks' = pcs_diff_blocks
                   /\ pcs_pc' = "parse"
              ELSE LET s == Min(S)
                       e == Min(MarkersFrom(pcs_analysis, FenceClose, s + Len(FenceOpen)))
                   IN  /\ pcs_start_pos <= s
                       /\ s + Len(FenceOpen) <= e
                       /\ pcs_diff_blocks' =
                             Append(pcs_diff_blocks,
                                    SubSeq(pcs_analysis, s + Len(FenceOpen) + 1, e))
                       /\ pcs_start_pos' = e + Len(FenceClose)
                       /\ pcs_pc' = "scan"
      ]_vars

\* C11 witness: two blocks were emitted and then a start marker without an end
\* marker ended the scan.
C11_TwoBlocksThenUnterminated ==
    /\ pcs_pc = "parse"
    /\ Len(pcs_diff_blocks) = 2
    /\ pcs_start_pos >= 0
    /\ At(pcs_analysis, pcs_start_pos + 1, FenceOpen)
    /\ MarkersFrom(pcs_analysis, FenceClose, pcs_start_pos + Len(FenceOpen)) = {}

\* the suggestions of the blocks that parse, in the order of the blocks, the
\* line number written in decimal
RECURSIVE KeptOf(_)
KeptOf(blocks) ==
    IF blocks = <<>> THEN <<>>
    ELSE LET parsed == ParseDiffForSuggestions(blocks[1])
         IN  (IF parsed = <<>> THEN <<>>
              ELSE << <<parsed[1][1], IntToStr(parsed[1][2]), parsed[1][3]>> >>)
                 \o KeptOf(Tail(blocks))

\* C12: a block that does not parse is dropped and nothing else changes: after
\* each block of the for loop, and at the return, the list holds exactly the
\* suggestions of the blocks handled so far that parse, one for each, in the
\* order of the blocks.
C12_MalformedBlockDropped ==
    /\ pcs_pc = "parse" => pcs_suggestions = KeptOf(SubSeq(pcs_diff_blocks, 1, pcs_n - 1))
    /\ pcs_pc = "done" => pcs_suggestions = KeptOf(pcs_diff_blocks)

\* C12 witness: of three blocks the middle one did not parse and the
\* suggestions of the two others were returned.
C12_MiddleBlockDropped ==
    /\ pcs_pc = "done"
    /\ Len(pcs_diff_blocks) = 3
    /\ ParseDiffForSuggestions(pcs_diff_blocks[2]) = <<>>
    /\ Len(pcs_suggestions) = 2
    /\ pcs_suggestions[1] # pcs_suggestions[2]

\* the (0-based) indices, from index from on, of the closing fences of the
\* text: the end marker (a newline and three backticks) where the backticks do
\* not begin a start marker
ClosingLines(text, from) ==
    { p \in MarkersFrom(text, FenceClose, from) : ~At(text, p + 2, FenceOpen) }

\* the bodies of the properly closed diff blocks of the text: the text between
\* a start marker and the first closing fence after it, when no
\* start marker lies between them
ClosedBlocks(text) ==
    { SubSeq(text, s + Len(FenceOpen) + 1, Min(ClosingLines(text, s + Len(FenceOpen)))) :
         s \in { t \in MarkersFrom(text, FenceOpen, 0) :
                    /\ ClosingLines(text, t + Len(FenceOpen)) # {}
                    /\ MarkersFrom(text, FenceOpen, t + 1)
                          \cap 0..Min(ClosingLines(text, t + Len(FenceOpen))) = {} } }

\* C24: every properly closed diff block of the text that parses as a
\* suggestion is returned, also when an earlier start marker has no closing
\* fence of its own.
C24_ClosedBlocksReturned ==
    pcs_pc = "done" =>
        \A body \in ClosedBlocks(pcs_analysis) :
            KeptOf(<<body>>) # <<>> =>
                \E k \in 1..Len(pcs_suggestions) : pcs_suggestions[k] = KeptOf(<<body>>)[1]

\* parse_diff_for_suggestions returns the suggestion s: for its block, or for
\* its block followed by a context line
Returnable(s) ==
    \E b \in { DiffBlock(s[1], s[2], s[3]),
               DiffBlock(s[1], s[2], s[3]) \o <<NL, " ", "c">> } :
        ParseDiffForSuggestions(b) = <<s>>

\* C13: a suggestion that parse_diff_for_suggestions returns, written as a
\* fenced block ("--- a/<path>", a hunk header with new-file start line, one
\* added line for each line of text), is given back by the extractor and the
\* parser with the same path, line and text.
C13_RoundTrip ==
    pcs_pc = "done" =>
        \A s \in PcsReturned :
            (Returnable(s) /\ pcs_analysis = Fenced(DiffBlock(s[1], s[2], s[3]))) =>
                pcs_suggestions = << <<s[1], IntToStr(s[2]), s[3]>> >>

-----------------------------------------------------------------------------
\* What a set of edits says, whatever the order they are supplied in.

\* the edits of the batch, as a set
EditSet(batch) == { batch[j] : j \in 1..Len(batch) }

\* the sequence a is the sequence b in another order
IsPermutation(a, b) ==
    /\ Len(a) = Len(b)
    /\ \E f \in [1..Len(a) -> 1..Len(a)] :
          /\ \A i, j \in 1..Len(a) : f[i] = f[j] => i = j
          /\ \A i \in 1..Len(a) : a[i] = b[f[i]]

\* the original lines from the i-th on, each line that an edit of the set E
\* targets replaced by the lines of that edit
RECURSIVE ReplacedBySet(_, _, _)
ReplacedBySet(orig, E, i) ==
    IF i > Len(orig) THEN <<>>
    ELSE LET T == { ed \in E : ed[1] = i }
         IN  (IF T = {} THEN <<orig[i]>> ELSE Split((CHOOSE ed \in T : TRUE)[2]))
                 \o ReplacedBySet(orig, E, i + 1)

\* C14: the edits of a file are applied in ascending order of target line,
\* whatever order they were supplied in, and for pairwise distinct target lines
\* the content produced is determined by the set of the edits alone, so it is
\* the same for every order of the suggestions.
C14_OrderIndependent ==
    as_pc = "edits" =>
        /\ IsPermutation(as_suggs, as_groups[as_f][2])
        /\ \A i, j \in 1..Len(as_suggs) : i < j => as_suggs[i][1] <= as_suggs[j][1]
        /\ (as_k > Len(as_suggs) /\ DistinctTargets(as_suggs)) =>
              as_lines = ReplacedBySet(Split(as_current_content),
                                       EditSet(as_groups[as_f][2]), 1)

\* C14 witness: two edits of one file, supplied with the higher target line
\* first, were both applied.
C14_SuppliedDescending ==
    /\ EditsDone
    /\ Len(as_suggs) = 2
    /\ as_groups[as_f][2][1][1] > as_groups[as_f][2][2][1]
    /\ \A j \in 1..2 : InRange(as_suggs[j], Split(as_current_content))
    /\ as_offset > 0

-----------------------------------------------------------------------------
\* verify_webhook_signature(payload, signature, secret)

\* The payload and the secret of test_verify_webhook_signature_valid, and a
\* second payload and secret.
TestPayload ==
    <<"{", "\"", "t", "e", "s", "t", "\"", ":", " ", "\"", "d", "a", "t", "a", "\"",
      "}">>

TestSecret ==
    <<"t", "e", "s", "t", "-", "s", "e", "c", "r", "e", "t">>

PayloadEmpty == <<"{", "}">>

SecretK == <<"k">>

\* The deliveries: of each, the bytes of the body (request.get_data()), the
\* JSON document those bytes hold (request.get_json()) and the hex HMAC-SHA256
\* of the bytes under TestSecret. A comment body is a sequence of characters.
\* a pull request was opened
EvOpened ==
    [payload |->
       <<"{", "\"", "a", "c", "t", "i", "o", "n", "\"", ":", "\"", "o", "p", "e", "n",
         "e", "d", "\"", ",", "\"", "p", "u", "l", "l", "_", "r", "e", "q", "u", "e",
         "s", "t", "\"", ":", "{", "\"", "n", "u", "m", "b", "e", "r", "\"", ":", "1",
         "}", ",", "\"", "i", "n", "s", "t", "a", "l", "l", "a", "t", "i", "o", "n",
         "\"", ":", "{", "\"", "i", "d", "\"", ":", "1", "}", ",", "\"", "r", "e", "p",
         "o", "s", "i", "t", "o", "r", "y", "\"", ":", "{", "\"", "f", "u", "l", "l",
         "_", "n", "a", "m", "e", "\"", ":", "\"", "o", "/", "r", "\"", "}", "}">>,
     data |-> [action |-> "opened", pull_request |-> [number |-> 1], installation |->
         [id |-> 1], repository |-> [full_name |-> "o/r"]],
     digest |->
       <<"3", "4", "f", "6", "1", "2", "6", "0", "e", "0", "5", "7", "9", "8", "2", "0",
         "9", "c", "5", "b", "e", "4", "6", "e", "8", "9", "1", "5", "1", "e", "8", "f",
         "b", "4", "8", "5", "0", "3", "c", "9", "5", "1", "3", "a", "a", "e", "6", "a",
         "0", "4", "b", "9", "5", "c", "3", "5", "6", "d", "5", "c", "e", "b", "8",
         "e">>]

\* commits were pushed to a pull request
EvSynchronize ==
    [payload |->
       <<"{", "\"", "a", "c", "t", "i", "o", "n", "\"", ":", "\"", "s", "y", "n", "c",
         "h", "r", "o", "n", "i", "z", "e", "\"", ",", "\"", "p", "u", "l", "l", "_",
         "r", "e", "q", "u", "e", "s", "t", "\"", ":", "{", "\"", "n", "u", "m", "b",
         "e", "r", "\"", ":", "1", "}", ",", "\"", "i", "n", "s", "t", "a", "l", "l",
         "a", "t", "i", "o", "n", "\"", ":", "{", "\"", "i", "d", "\"", ":", "1", "}",
         ",", "\"", "r", "e", "p", "o", "s", "i", "t", "o", "r", "y", "\"", ":", "{",
         "\"", "f", "u", "l", "l", "_", "n", "a", "m", "e", "\"", ":", "\"", "o", "/",
         "r", "\"", "}", "}">>,
     data |-> [action |-> "synchronize", pull_request |-> [number |-> 1], installation
         |-> [id |-> 1], repository |-> [full_name |-> "o/r"]],
     digest |->
       <<"4", "3", "c", "e", "e", "d", "9", "b", "7", "5", "2", "e", "7", "e", "e", "9",
         "7", "7", "8", "f", "c", "b", "7", "f", "b", "8", "c", "0", "8", "7", "8", "d",
         "6", "1", "1", "a", "a", "9", "2", "b", "f", "e", "5", "0", "a", "2", "2", "c",
         "d", "2", "4", "4", "9", "d", "a", "3", "4", "5", "2", "4", "0", "f", "3",
         "6">>]

\* a pull request was opened again
EvReopened ==
    [payload |->
       <<"{", "\"", "a", "c", "t", "i", "o", "n", "\"", ":", "\"", "r", "e", "o", "p",
         "e", "n", "e", "d", "\"", ",", "\"", "p", "u", "l", "l", "_", "r", "e", "q",
         "u", "e", "s", "t", "\"", ":", "{", "\"", "n", "u", "m", "b", "e", "r", "\"",
         ":", "1", "}", ",", "\"", "i", "n", "s", "t", "a", "l", "l", "a", "t", "i",
         "o", "n", "\"", ":", "{", "\"", "i", "d", "\"", ":", "1", "}", ",", "\"", "r",
         "e", "p", "o", "s", "i", "t", "o", "r", "y", "\"", ":", "{", "\"", "f", "u",
         "l", "l", "_", "n", "a", "m", "e", "\"", ":", "\"", "o", "/", "r", "\"", "}",
         "}">>,
     data |-> [action |-> "reopened", pull_request |-> [number |-> 1], installation |->
         [id |-> 1], repository |-> [full_name |-> "o/r"]],
     digest |->
       <<"9", "e", "f", "b", "a", "8", "7", "b", "1", "a", "7", "5", "1", "3", "4", "3",
         "1", "3", "f", "7", "5", "3", "0", "d", "f", "0", "0", "a", "7", "6", "6", "5",
         "b", "4", "3", "f", "1", "5", "6", "f", "d", "8", "d", "4", "a", "0", "0", "e",
         "d", "3", "4", "9", "4", "b", "4", "4", "e", "0", "5", "6", "c", "d", "c",
         "5">>]

\* a pull request was closed
EvClosed ==
    [payload |->
       <<"{", "\"", "a", "c", "t", "i", "o", "n", "\"", ":", "\"", "c", "l", "o", "s",
         "e", "d", "\"", ",", "\"", "p", "u", "l", "l", "_", "r", "e", "q", "u", "e",
         "s", "t", "\"", ":", "{", "\"", "n", "u", "m", "b", "e", "r", "\"", ":", "1",
         "}", ",", "\"", "i", "n", "s", "t", "a", "l", "l", "a", "t", "i", "o", "n",
         "\"", ":", "{", "\"", "i", "d", "\"", ":", "1", "}", ",", "\"", "r", "e", "p",
         "o", "s", "i", "t", "o", "r", "y", "\"", ":", "{", "\"", "f", "u", "l", "l",
         "_", "n", "a", "m", "e", "\"", ":", "\"", "o", "/", "r", "\"", "}", "}">>,
     data |-> [action |-> "closed", pull_request |-> [number |-> 1], installation |->
         [id |-> 1], repository |-> [full_name |-> "o/r"]],
     digest |->
       <<"1", "1", "2", "6", "f", "0", "4", "b", "d", "5", "f", "3", "2", "5", "a", "1",
         "f", "c", "6", "2", "c", "b", "e", "9", "e", "b", "2", "c", "3", "f", "1", "2",
         "1", "7", "9", "2", "b", "3", "2", "7", "c", "1", "3", "0", "c", "8", "4", "0",
         "5", "8", "9", "1", "4", "2", "f", "0", "f", "8", "6", "c", "3", "b", "6",
         "6">>]

\* an issue was opened
EvIssueOpened ==
    [payload |->
       <<"{", "\"", "a", "c", "t", "i", "o", "n", "\"", ":", "\"", "o", "p", "e", "n",
         "e", "d", "\"", ",", "\"", "i", "s", "s", "u", "e", "\"", ":", "{", "\"", "n",
         "u", "m", "b", "e", "r", "\"", ":", "2", "}", ",", "\"", "i", "n", "s", "t",
         "a", "l", "l", "a", "t", "i", "o", "n", "\"", ":", "{", "\"", "i", "d", "\"",
         ":", "1", "}", ",", "\"", "r", "e", "p", "o", "s", "i", "t", "o", "r", "y",
         "\"", ":", "{", "\"", "f", "u", "l", "l", "_", "n", "a", "m", "e", "\"", ":",
         "\"", "o", "/", "r", "\"", "}", "}">>,
     data |-> [action |-> "opened", issue |-> [number |-> 2], installation |-> [id |->
         1], repository |-> [full_name |-> "o/r"]],
     digest |->
       <<"0", "3", "4", "4", "e", "f", "7", "b", "b", "c", "0", "b", "a", "9", "b", "a",
         "1", "3", "c", "7", "f", "0", "6", "7", "1", "0", "8", "d", "5", "3", "0", "5",
         "5", "9", "0", "6", "7", "1", "1", "c", "8", "f", "3", "2", "b", "e", "0", "5",
         "d", "6", "d", "9", "3", "0", "8", "a", "4", "8", "c", "2", "6", "7", "f",
         "b">>]

\* the comment /apply on a pull request
EvApply ==
    [payload |->
       <<"{", "\"", "a", "c", "t", "i", "o", "n", "\"", ":", "\"", "c", "r", "e", "a",
         "t", "e", "d", "\"", ",", "\"", "i", "s", "s", "u", "e", "\"", ":", "{", "\"",
         "n", "u", "m", "b", "e", "r", "\"", ":", "1", ",", "\"", "p", "u", "l", "l",
         "_", "r", "e", "q", "u", "e", "s", "t", "\"", ":", "{", "\"", "u", "r", "l",
         "\"", ":", "\"", "u", "\"", "}", "}", ",", "\"", "c", "o", "m", "m", "e", "n",
         "t", "\"", ":", "{", "\"", "b", "o", "d", "y", "\"", ":", "\"", "/", "a", "p",
         "p", "l", "y", "\"", "}", ",", "\"", "i", "n", "s", "t", "a", "l", "l", "a",
         "t", "i", "o", "n", "\"", ":", "{", "\"", "i", "d", "\"", ":", "1", "}", ",",
         "\"", "r", "e", "p", "o", "s", "i", "t", "o", "r", "y", "\"", ":", "{", "\"",
         "f", "u", "l", "l", "_", "n", "a", "m", "e", "\"", ":", "\"", "o", "/", "r",
         "\"", "}", "}">>,
     data |-> [action |-> "created", issue |-> [number |-> 1, pull_request |-> [url |->
         "u"]], comment |-> [body |-> <<"/", "a", "p", "p", "l", "y">>], installation
         |-> [id |-> 1], repository |-> [full_name |-> "o/r"]],
     digest |->
       <<"3", "b", "e", "3", "1", "5", "e", "c", "e", "0", "b", "a", "9", "b", "9", "4",
         "e", "3", "b", "8", "5", "1", "3", "8", "0", "1", "e", "6", "9", "b", "b", "2",
         "6", "7", "5", "8", "d", "b", "e", "f", "c", "8", "a", "2", "3", "c", "f", "4",
         "f", "f", "2", "8", "7", "f", "1", "1", "9", "1", "e", "8", "c", "d", "d",
         "2">>]

\* the comment /Apply with white space around it, on a pull request
EvApplySpaced ==
    [payload |->
       <<"{", "\"", "a", "c", "t", "i", "o", "n", "\"", ":", "\"", "c", "r", "e", "a",
         "t", "e", "d", "\"", ",", "\"", "i", "s", "s", "u", "e", "\"", ":", "{", "\"",
         "n", "u", "m", "b", "e", "r", "\"", ":", "1", ",", "\"", "p", "u", "l", "l",
         "_", "r", "e", "q", "u", "e", "s", "t", "\"", ":", "{", "\"", "u", "r", "l",
         "\"", ":", "\"", "u", "\"", "}", "}", ",", "\"", "c", "o", "m", "m", "e", "n",
         "t", "\"", ":", "{", "\"", "b", "o", "d", "y", "\"", ":", "\"", " ", "/", "A",
         "p", "p", "l", "y", "\\", "n", "\"", "}", ",", "\"", "i", "n", "s", "t", "a",
         "l", "l", "a", "t", "i", "o", "n", "\"", ":", "{", "\"", "i", "d", "\"", ":",
         "1", "}", ",", "\"", "r", "e", "p", "o", "s", "i", "t", "o", "r", "y", "\"",
         ":", "{", "\"", "f", "u", "l", "l", "_", "n", "a", "m", "e", "\"", ":", "\"",
         "o", "/", "r", "\"", "}", "}">>,
     data |-> [action |-> "created", issue |-> [number |-> 1, pull_request |-> [url |->
         "u"]], comment |-> [body |-> <<" ", "/", "A", "p", "p", "l", "y", NL>>],
         installation |-> [id |-> 1], repository |-> [full_name |-> "o/r"]],
     digest |->
       <<"b", "b", "0", "d", "9", "a", "0", "3", "b", "9", "9", "3", "c", "1", "2", "c",
         "8", "1", "d", "3", "2", "7", "0", "6", "7", "9", "c", "0", "a", "a", "d", "6",
         "6", "5", "f", "3", "0", "7", "3", "4", "e", "a", "6", "a", "6", "5", "5", "b",
         "4", "e", "3", "c", "8", "3", "9", "a", "a", "2", "a", "2", "b", "1", "6",
         "d">>]

\* a comment on a pull request that begins with /apply
EvApplyNow ==
    [payload |->
       <<"{", "\"", "a", "c", "t", "i", "o", "n", "\"", ":", "\"", "c", "r", "e", "a",
         "t", "e", "d", "\"", ",", "\"", "i", "s", "s", "u", "e", "\"", ":", "{", "\"",
         "n", "u", "m", "b", "e", "r", "\"", ":", "1", ",", "\"", "p", "u", "l", "l",
         "_", "r", "e", "q", "u", "e", "s", "t", "\"", ":", "{", "\"", "u", "r", "l",
         "\"", ":", "\"", "u", "\"", "}", "}", ",", "\"", "c", "o", "m", "m", "e", "n",
         "t", "\"", ":", "{", "\"", "b", "o", "d", "y", "\"", ":", "\"", "/", "a", "p",
         "p", "l", "y", " ", "n", "o", "w", "\"", "}", ",", "\"", "i", "n", "s", "t",
         "a", "l", "l", "a", "t", "i", "o", "n", "\"", ":", "{", "\"", "i", "d", "\"",
         ":", "1", "}", ",", "\"", "r", "e", "p", "o", "s", "i", "t", "o", "r", "y",
         "\"", ":", "{", "\"", "f", "u", "l", "l", "_", "n", "a", "m", "e", "\"", ":",
         "\"", "o", "/", "r", "\"", "}", "}">>,
     data |-> [action |-> "created", issue |-> [number |-> 1, pull_request |-> [url |->
         "u"]], comment |-> [body |-> <<"/", "a", "p", "p", "l", "y", " ", "n", "o",
         "w">>], installation |-> [id |-> 1], repository |-> [full_name |-> "o/r"]],
     digest |->
       <<"5", "a", "e", "b", "3", "2", "e", "a", "f", "8", "a", "9", "b", "0", "2", "5",
         "d", "7", "0", "5", "f", "4", "3", "1", "0", "d", "9", "c", "6", "f", "c", "d",
         "e", "0", "e", "9", "c", "9", "e", "0", "5", "8", "9", "a", "e", "c", "a", "a",
         "c", "f", "c", "b", "9", "d", "1", "f", "4", "1", "2", "e", "1", "7", "2",
         "b">>]

\* the comment /apply on an issue that is no pull request
EvApplyOnIssue ==
    [payload |->
       <<"{", "\"", "a", "c", "t", "i", "o", "n", "\"", ":", "\"", "c", "r", "e", "a",
         "t", "e", "d", "\"", ",", "\"", "i", "s", "s", "u", "e", "\"", ":", "{", "\"",
         "n", "u", "m", "b", "e", "r", "\"", ":", "2", "}", ",", "\"", "c", "o", "m",
         "m", "e", "n", "t", "\"", ":", "{", "\"", "b", "o", "d", "y", "\"", ":", "\"",
         "/", "a", "p", "p", "l", "y", "\"", "}", ",", "\"", "i", "n", "s", "t", "a",
         "l", "l", "a", "t", "i", "o", "n", "\"", ":", "{", "\"", "i", "d", "\"", ":",
         "1", "}", ",", "\"", "r", "e", "p", "o", "s", "i", "t", "o", "r", "y", "\"",
         ":", "{", "\"", "f", "u", "l", "l", "_", "n", "a", "m", "e", "\"", ":", "\"",
         "o", "/", "r", "\"", "}", "}">>,
     data |-> [action |-> "created", issue |-> [number |-> 2], comment |-> [body |->
         <<"/", "a", "p", "p", "l", "y">>], installation |-> [id |-> 1], repository |->
         [full_name |-> "o/r"]],
     digest |->
       <<"b", "9", "8", "1", "2", "a", "2", "d", "8", "2", "0", "b", "b", "0", "a", "8",
         "a", "1", "1", "9", "9", "a", "2", "f", "c", "e", "4", "4", "4", "4", "2", "4",
         "9", "2", "1", "9", "6", "b", "3", "0", "8", "3", "e", "0", "6", "2", "e", "4",
         "5", "e", "a", "8", "2", "1", "4", "e", "0", "5", "1", "d", "9", "2", "a",
         "e">>]

\* a review comment was created on a pull request
EvReviewComment ==
    [payload |->
       <<"{", "\"", "a", "c", "t", "i", "o", "n", "\"", ":", "\"", "c", "r", "e", "a",
         "t", "e", "d", "\"", ",", "\"", "p", "u", "l", "l", "_", "r", "e", "q", "u",
         "e", "s", "t", "\"", ":", "{", "\"", "n", "u", "m", "b", "e", "r", "\"", ":",
         "1", "}", ",", "\"", "c", "o", "m", "m", "e", "n", "t", "\"", ":", "{", "\"",
         "b", "o", "d", "y", "\"", ":", "\"", "/", "a", "p", "p", "l", "y", "\"", "}",
         ",", "\"", "i", "n", "s", "t", "a", "l", "l", "a", "t", "i", "o", "n", "\"",
         ":", "{", "\"", "i", "d", "\"", ":", "1", "}", ",", "\"", "r", "e", "p", "o",
         "s", "i", "t", "o", "r", "y", "\"", ":", "{", "\"", "f", "u", "l", "l", "_",
         "n", "a", "m", "e", "\"", ":", "\"", "o", "/", "r", "\"", "}", "}">>,
     data |-> [action |-> "created", pull_request |-> [number |-> 1], comment |-> [body
         |-> <<"/", "a", "p", "p", "l", "y">>], installation |-> [id |-> 1], repository
         |-> [full_name |-> "o/r"]],
     digest |->
       <<"0", "4", "a", "0", "b", "2", "6", "1", "7", "9", "d", "6", "0", "f", "6", "8",
         "b", "0", "e", "3", "0", "a", "0", "9", "4", "2", "8", "8", "1", "f", "0", "7",
         "4", "0", "3", "1", "4", "a", "9", "8", "1", "6", "7", "0", "a", "d", "1", "c",
         "7", "7", "1", "4", "b", "2", "f", "6", "8", "e", "a", "e", "a", "d", "e",
         "b">>]

\* a pull request was opened; the delivery of a repository webhook, which has
\* no installation
EvOpenedNoInstallation ==
    [payload |->
       <<"{", "\"", "a", "c", "t", "i", "o", "n", "\"", ":", "\"", "o", "p", "e", "n",
         "e", "d", "\"", ",", "\"", "p", "u", "l", "l", "_", "r", "e", "q", "u", "e",
         "s", "t", "\"", ":", "{", "\"", "n", "u", "m", "b", "e", "r", "\"", ":", "1",
         "}", ",", "\"", "r", "e", "p", "o", "s", "i", "t", "o", "r", "y", "\"", ":",
         "{", "\"", "f", "u", "l", "l", "_", "n", "a", "m", "e", "\"", ":", "\"", "o",
         "/", "r", "\"", "}", "}">>,
     data |-> [action |-> "opened", pull_request |-> [number |-> 1], repository |->
         [full_name |-> "o/r"]],
     digest |->
       <<"e", "1", "2", "2", "e", "e", "4", "e", "2", "b", "f", "6", "1", "8", "8", "3",
         "1", "d", "b", "b", "b", "6", "1", "4", "9", "0", "a", "6", "2", "0", "4", "8",
         "4", "b", "f", "4", "e", "e", "1", "d", "9", "5", "3", "1", "d", "5", "6", "f",
         "d", "9", "7", "b", "2", "2", "2", "e", "c", "4", "2", "6", "c", "b", "d",
         "0">>]

\* the app was installed; the delivery has no repository
EvInstallationCreated ==
    [payload |->
       <<"{", "\"", "a", "c", "t", "i", "o", "n", "\"", ":", "\"", "c", "r", "e", "a",
         "t", "e", "d", "\"", ",", "\"", "i", "n", "s", "t", "a", "l", "l", "a", "t",
         "i", "o", "n", "\"", ":", "{", "\"", "i", "d", "\"", ":", "1", "}", ",", "\"",
         "s", "e", "n", "d", "e", "r", "\"", ":", "{", "\"", "l", "o", "g", "i", "n",
         "\"", ":", "\"", "u", "\"", "}", "}">>,
     data |-> [action |-> "created", installation |-> [id |-> 1], sender |-> [login |->
         "u"]],
     digest |->
       <<"8", "6", "8", "f", "3", "5", "f", "3", "5", "9", "6", "8", "e", "f", "f", "1",
         "7", "0", "5", "4", "7", "2", "1", "1", "6", "6", "1", "4", "0", "8", "6", "c",
         "4", "9", "a", "7", "f", "a", "1", "3", "d", "c", "1", "6", "a", "0", "9", "8",
         "a", "8", "0", "9", "2", "7", "d", "8", "2", "1", "8", "a", "0", "e", "8",
         "0">>]

\* a delivery without action
EvPing ==
    [payload |->
       <<"{", "\"", "z", "e", "n", "\"", ":", "\"", "z", "\"", ",", "\"", "i", "n", "s",
         "t", "a", "l", "l", "a", "t", "i", "o", "n", "\"", ":", "{", "\"", "i", "d",
         "\"", ":", "1", "}", ",", "\"", "r", "e", "p", "o", "s", "i", "t", "o", "r",
         "y", "\"", ":", "{", "\"", "f", "u", "l", "l", "_", "n", "a", "m", "e", "\"",
         ":", "\"", "o", "/", "r", "\"", "}", "}">>,
     data |-> [zen |-> "z", installation |-> [id |-> 1], repository |-> [full_name |->
         "o/r"]],
     digest |->
       <<"9", "d", "8", "2", "8", "a", "6", "1", "b", "b", "1", "0", "0", "2", "a", "d",
         "5", "0", "9", "e", "a", "b", "3", "8", "9", "2", "0", "1", "5", "9", "1", "1",
         "1", "e", "8", "c", "0", "4", "b", "f", "7", "6", "8", "a", "c", "5", "7", "0",
         "9", "7", "2", "a", "e", "1", "7", "d", "8", "d", "1", "7", "1", "7", "2",
         "a">>]

Deliveries ==
    <<EvOpened, EvSynchronize, EvReopened, EvClosed, EvIssueOpened, EvApply,
      EvApplySpaced, EvApplyNow, EvApplyOnIssue, EvReviewComment,
      EvOpenedNoInstallation, EvInstallationCreated, EvPing>>

\* line 768: hmac.new(secret.encode(), msg=payload, digestmod=hashlib.sha256)
\* .hexdigest(), for the payloads and secrets above
HexDigest(secret, payload) ==
    IF secret = TestSecret /\ \E e \in 1..Len(Deliveries) : Deliveries[e].payload = payload THEN
      Deliveries[CHOOSE e \in 1..Len(Deliveries) : Deliveries[e].payload = payload].digest
    ELSE IF secret = TestSecret /\ payload = TestPayload THEN
      <<"b", "4", "8", "2", "0", "c", "e", "c", "8", "7", "1", "e", "f", "f", "5",
        "3", "2", "8", "5", "e", "d", "f", "b", "f", "9", "e", "7", "c", "d", "0",
        "0", "8", "1", "e", "8", "e", "5", "c", "c", "a", "7", "5", "9", "f", "a",
        "3", "b", "0", "4", "5", "3", "d", "9", "0", "2", "3", "4", "8", "9", "4",
        "2", "1", "a", "3">>
    ELSE IF secret = TestSecret /\ payload = PayloadEmpty THEN
      <<"2", "f", "5", "9", "0", "4", "0", "b", "6", "3", "b", "7", "2", "0", "0",
        "5", "9", "8", "4", "4", "4", "2", "3", "9", "d", "a", "2", "c", "9", "a",
        "4", "f", "3", "a", "b", "c", "5", "c", "4", "3", "4", "2", "5", "9", "b",
        "2", "3", "1", "2", "6", "d", "7", "2", "5", "1", "4", "d", "a", "b", "8",
        "c", "d", "0", "9">>
    ELSE IF secret = SecretK /\ payload = TestPayload THEN
      <<"e", "c", "c", "0", "e", "2", "7", "d", "3", "a", "1", "f", "8", "3", "3",
        "4", "2", "7", "2", "2", "7", "4", "9", "8", "5", "9", "c", "2", "f", "d",
        "5", "e", "a", "3", "8", "8", "2", "9", "4", "e", "e", "8", "8", "9", "2",
        "b", "0", "1", "0", "5", "9", "1", "2", "4", "4", "c", "7", "7", "0", "8",
        "0", "5", "5", "9">>
    ELSE
      <<"a", "d", "d", "8", "5", "3", "b", "1", "0", "3", "f", "b", "c", "c", "9",
        "3", "6", "a", "1", "9", "4", "f", "9", "e", "b", "1", "5", "e", "2", "9",
        "c", "4", "f", "f", "0", "8", "a", "f", "6", "e", "4", "7", "d", "5", "d",
        "1", "b", "c", "a", "4", "f", "2", "0", "2", "1", "8", "e", "3", "1", "e",
        "4", "f", "f", "f">>

Sha256 == <<"s", "h", "a", "2", "5", "6">>
Sha1 == <<"s", "h", "a", "1">>
Equals == <<"=">>

\* a character outside ASCII (U+00E9), written by its name
EAcute == "e-acute"

\* the string has ASCII characters only
IsAscii(text) == \A k \in 1..Len(text) : text[k] # EAcute

\* line 765: signature.split("=", 1): the parts before and after the first "="
\* or, without "=", the signature alone
SplitOnce(text, sep) ==
    LET k == Find(text, sep, 0)
    IN  IF k = -1 THEN <<text>>
        ELSE <<Slice(text, 0, k), DropFirst(text, k + Len(sep))>>

\* The signature headers: none, empty, the right one, a wrong digest, the
\* digest in upper case letters, another algorithm, no "=", a character
\* outside ASCII, the signature of the invalid test.
TestInvalidSig ==
    <<"s", "h", "a", "2", "5", "6", "=", "i", "n", "v", "a", "l", "i", "d">>

VwsSignatures(secret, payload) ==
    { <<>>,
      << <<>> >>,
      <<Sha256 \o Equals \o HexDigest(secret, payload)>>,
      <<Sha256 \o Equals \o HexDigest(secret, PayloadEmpty)>>,
      <<Sha256 \o Equals \o HexDigest(SecretK, payload)>>,
      <<Sha1 \o Equals \o HexDigest(secret, payload)>>,
      <<Equals \o HexDigest(secret, payload)>>,
      <<Sha256 \o Equals \o HexDigest(secret, payload) \o Equals>>,
      <<Sha256 \o Equals>>,
      <<Sha256>>,
      <<Sha256 \o HexDigest(secret, payload)>>,
      <<Sha256 \o Equals \o <<EAcute>> >>,
      <<TestInvalidSig>> }

VwsSecrets == { <<>>, << <<>> >>, <<TestSecret>>, <<SecretK>> }

VwsPayloads == { TestPayload, PayloadEmpty }

VwsInit ==
    /\ WhIdle
    /\ PcwIdle
    /\ CbIdle
    /\ GhIdle
    /\ FdpIdle
    /\ PdsIdle
    /\ AsIdle
    /\ PcsIdle
    /\ vws_payload \in VwsPayloads
    /\ vws_secret \in VwsSecrets
    /\ vws_signature \in
          VwsSignatures(IF vws_secret \in { <<>>, << <<>> >> } THEN TestSecret
                        ELSE vws_secret[1],
                        vws_payload)
    /\ vws_pc = "call"
    /\ vws_return = FALSE

\* line 763: not signature or not secret
VwsMissing ==
    \/ vws_signature = <<>> \/ vws_signature = << <<>> >>
    \/ vws_secret = <<>> \/ vws_secret = << <<>> >>

\* lines 765, 769: the unpacking of a split without "=" raises ValueError and
\* hmac.compare_digest of a str with a character outside ASCII raises TypeError
VwsRaises ==
    /\ ~VwsMissing
    /\ LET parts == SplitOnce(vws_signature[1], Equals)
       IN  \/ Len(parts) # 2
           \/ Len(parts) = 2 /\ parts[1] = Sha256 /\ ~IsAscii(parts[2])

\* lines 763-769: the call returns
VwsReturn ==
    /\ vws_pc = "call"
    /\ ~VwsRaises
    /\ vws_return' =
          IF VwsMissing THEN FALSE
          ELSE LET parts == SplitOnce(vws_signature[1], Equals)
                   sha_name == parts[1]
                   sig == parts[2]
               IN  IF sha_name # Sha256 THEN FALSE
                   ELSE HexDigest(vws_secret[1], vws_payload) = sig
    /\ vws_pc' = "returned"
    /\ UNCHANGED <<vws_payload, vws_signature, vws_secret>>
    /\ UNCHANGED notVws

\* lines 765, 769: the call raises
VwsRaise ==
    /\ vws_pc = "call"
    /\ VwsRaises
    /\ vws_pc' = "raised"
    /\ UNCHANGED <<vws_payload, vws_signature, vws_secret, vws_return>>
    /\ UNCHANGED notVws

VwsNext ==
    \/ VwsReturn
    \/ VwsRaise

SpecSig == VwsInit /\ [][VwsNext]_vars

\* the signature header is "sha256=" followed by the hex HMAC-SHA256 of the
\* payload under the secret, and the secret is not empty
ValidSignature ==
    /\ vws_secret # <<>> /\ vws_secret # << <<>> >>
    /\ vws_signature = <<Sha256 \o Equals \o HexDigest(vws_secret[1], vws_payload)>>

\* C16: the call returns for every input, with True exactly when the secret is
\* not empty and the signature is "sha256=" and the hex HMAC-SHA256 of the
\* payload under the secret, and with False otherwise; the signatures of the
\* two tests give True and False.
C16_TotalCheck ==
    vws_pc # "call" =>
        /\ vws_pc = "returned"
        /\ vws_return <=> ValidSignature
        /\ (vws_payload = TestPayload /\ vws_secret = <<TestSecret>>
              /\ vws_signature = <<TestInvalidSig>>) => ~vws_return

-----------------------------------------------------------------------------
\* create_branch(repo, base_branch, new_branch_name)

\* Every call of the GitHub API can fail, whatever the state of the
\* repository: the actions named ...Fails are enabled whenever the call is made.

CbInit ==
    /\ WhIdle
    /\ PcwIdle
    /\ FdpIdle
    /\ PdsIdle
    /\ AsIdle
    /\ PcsIdle
    /\ VwsIdle
    /\ gh_heads \in [BranchNames -> { <<>>, <<BaseSha>>, <<HeadSha>> }]
    /\ gh_comments = <<>>
    /\ gh_reviews = <<>>
    /\ gh_pulls = <<>>
    /\ cb_base_branch \in { MainBranch, DevBranch }
    /\ cb_new_branch_name \in { TestBranch, MainBranch }
    /\ cb_pc = "start"
    /\ cb_base_sha = HeadSha
    /\ cb_return = <<>>
    /\ cb_creates = 0

\* lines 484-488: the lookup of heads/<new_branch_name> succeeds: the existing
\* ref is returned
CbLookupFound ==
    /\ cb_pc = "start"
    /\ gh_heads[cb_new_branch_name] # <<>>
    /\ cb_return' = <<cb_new_branch_name, gh_heads[cb_new_branch_name][1]>>
    /\ cb_pc' = "returned"
    /\ UNCHANGED <<cb_base_branch, cb_new_branch_name, cb_base_sha, cb_creates>>
    /\ UNCHANGED <<ghVars, notCbGh>>

\* lines 484, 489-490: the lookup raises (no such ref, or the call failed)
CbLookupFails ==
    /\ cb_pc = "start"
    /\ cb_pc' = "base"
    /\ UNCHANGED <<cb_base_branch, cb_new_branch_name, cb_base_sha, cb_return, cb_creates>>
    /\ UNCHANGED <<ghVars, notCbGh>>

\* line 492: base_ref = repo.get_git_ref(f"heads/{base_branch}")
CbBase ==
    /\ cb_pc = "base"
    /\ gh_heads[cb_base_branch] # <<>>
    /\ cb_base_sha' = gh_heads[cb_base_branch][1]
    /\ cb_pc' = "create"
    /\ UNCHANGED <<cb_base_branch, cb_new_branch_name, cb_return, cb_creates>>
    /\ UNCHANGED <<ghVars, notCbGh>>

\* lines 492, 498-500: reading the base ref raises and the exception is raised again
CbBaseFails ==
    /\ cb_pc = "base"
    /\ cb_pc' = "raised"
    /\ UNCHANGED <<cb_base_branch, cb_new_branch_name, cb_base_sha, cb_return, cb_creates>>
    /\ UNCHANGED <<ghVars, notCbGh>>

\* CbCreate changed: the ref is created at the head of the PR, not at the base
CbCreateAtPrHead ==
    /\ cb_pc = "create"
    /\ gh_heads[cb_new_branch_name] = <<>>
    /\ gh_heads' = [gh_heads EXCEPT ![cb_new_branch_name] = <<HeadSha>>]
    /\ cb_creates' = cb_creates + 1
    /\ cb_pc' = "fetch"
    /\ UNCHANGED <<cb_base_branch, cb_new_branch_name, cb_base_sha, cb_return>>
    /\ UNCHANGED <<gh_comments, gh_reviews, gh_pulls, notCbGh>>

\* lines 493-495: repo.create_git_ref(ref=f"refs/heads/{new_branch_name}",
\* sha=base_ref.object.sha)
CbCreate ==
    /\ cb_pc = "create"
    /\ gh_heads[cb_new_branch_name] = <<>>
    /\ gh_heads' = [gh_heads EXCEPT ![cb_new_branch_name] = <<cb_base_sha>>]
    /\ cb_creates' = cb_creates + 1
    /\ cb_pc' = "fetch"
    /\ UNCHANGED <<cb_base_branch, cb_new_branch_name, cb_base_sha, cb_return>>
    /\ UNCHANGED <<gh_comments, gh_reviews, gh_pulls, notCbGh>>

\* lines 493, 498-500: creating the ref raises (the ref exists, or the call
\* failed) and the exception is raised again
CbCreateFails ==
    /\ cb_pc = "create"
    /\ cb_creates' = cb_creates + 1
    /\ cb_pc' = "raised"
    /\ UNCHANGED <<cb_base_branch, cb_new_branch_name, cb_base_sha, cb_return>>
    /\ UNCHANGED <<ghVars, notCbGh>>

\* line 497: return repo.get_git_ref(f"heads/{new_branch_name}")
CbFetch ==
    /\ cb_pc = "fetch"
    /\ cb_return' = <<cb_new_branch_name, gh_heads[cb_new_branch_name][1]>>
    /\ cb_pc' = "returned"
    /\ UNCHANGED <<cb_base_branch, cb_new_branch_name, cb_base_sha, cb_creates>>
    /\ UNCHANGED <<ghVars, notCbGh>>

\* lines 497-500: fetching the new ref raises and the exception is raised again
CbFetchFails ==
    /\ cb_pc = "fetch"
    /\ cb_pc' = "raised"
    /\ UNCHANGED <<cb_base_branch, cb_new_branch_name, cb_base_sha, cb_return, cb_creates>>
    /\ UNCHANGED <<ghVars, notCbGh>>

CbNext ==
    \/ CbLookupFound
    \/ CbLookupFails
    \/ CbBase
    \/ CbBaseFails
    \/ CbCreate
    \/ CbCreateFails
    \/ CbFetch
    \/ CbFetchFails

SpecBranch == CbInit /\ [][CbNext]_vars

\* C17: a call makes at most one call of create_git_ref; when the lookup of
\* the new branch succeeds the existing ref is returned, nothing is created
\* and no ref changes; when it fails the one ref that is created is
\* heads/<new_branch_name> at the sha of the base ref, and the ref returned is
\* the new ref as fetched after that; an exception comes only from reading the
\* base ref, creating the ref or fetching it, and ends the call.
C17_OneRefPerCall ==
    [][/\ cb_creates' <= 1
       /\ (cb_pc = "start" /\ gh_heads[cb_new_branch_name] # <<>> /\ cb_pc' = "returned") =>
             /\ cb_return' = <<cb_new_branch_name, gh_heads[cb_new_branch_name][1]>>
             /\ cb_creates' = 0
             /\ gh_heads' = gh_heads
       /\ (cb_pc = "start" /\ cb_pc' = "returned") => gh_heads[cb_new_branch_name] # <<>>
       /\ gh_heads' # gh_heads =>
             /\ cb_creates = 0 /\ cb_creates' = 1
             /\ gh_heads[cb_base_branch] # <<>>
             /\ gh_heads' = [gh_heads EXCEPT ![cb_new_branch_name] = gh_heads[cb_base_branch]]
       /\ (cb_pc # "start" /\ cb_pc' = "returned") =>
             /\ cb_creates' = 1
             /\ gh_heads[cb_new_branch_name] = gh_heads[cb_base_branch]
             /\ cb_return' = <<cb_new_branch_name, gh_heads[cb_base_branch][1]>>
       /\ cb_pc' = "raised" => cb_pc \in { "base", "create", "fetch", "raised" }
       /\ cb_pc \in { "returned", "raised" } => UNCHANGED <<cb_pc, cb_return, gh_heads>>
      ]_vars

\* C17 witness: the lookup failed, one ref was created at the sha of the base
\* ref and the fetched new ref was returned.
C17_BranchCreated ==
    /\ cb_pc = "returned"
    /\ cb_creates = 1
    /\ cb_return = <<cb_new_branch_name, BaseSha>>
    /\ gh_heads[cb_new_branch_name] = <<BaseSha>>

-----------------------------------------------------------------------------
\* post_comment_webhook(github_token, repo_name, pr_details, analysis), with
\* post_inline_suggestions and create_improvement_pr_from_analysis

\* the values config.get reads at lines 851-855
PcwConfigs ==
    [enable_authoring : BOOLEAN, auto_commit_suggestions : BOOLEAN,
     create_improvement_prs : BOOLEAN]

\* The analysis texts: one block; two blocks for the same line of t.py; a
\* block for a line t.py does not have; a block that does not parse and a
\* start marker without end marker; no block; blocks for two lines.
PcwAnalyses ==
    { Fenced(DiffBlock(PathT, 1, <<"a">>)),
      Fenced(DiffBlock(PathT, 1, <<"b", NL, "c">>)) \o <<NL>>
          \o Fenced(DiffBlock(PathT, 1, <<"a">>)),
      Fenced(DiffBlock(PathT, 3, <<"a">>)),
      Fenced(<<"x">>) \o FenceOpen,
      <<"x">>,
      Fenced(DiffBlock(PathT, 2, <<"a">>)) \o Fenced(DiffBlock(PathT, 1, <<"b", NL, "c">>)) }

\* The diffs of the PR: line 1 of t.py is an added line; t.py has two sections
\* without hunks; the hunk header of t.py is malformed.
PcwDiffs ==
    { Join(<<DiffHeader(PathT),
             <<"@", "@", " ", "-", "1", ",", "3", " ", "+", "1", ",", "3", " ", "@", "@">>,
             <<"+", "n">> >>),
      Join(<< <<" ", "c">>, DiffHeader(PathT), <<"-", "o">>, DiffHeader(PathTBak)>>),
      Join(<<DiffHeader(PathT), <<"@", "@", " ", "+", "1", " ", "@", "@">> >>) }

PcwInit ==
    /\ WhIdle
    /\ FdpIdle
    /\ PdsIdle
    /\ AsIdle
    /\ PcsIdle
    /\ VwsIdle
    /\ CbIdle
    /\ gh_heads \in { HeadsInit, [HeadsInit EXCEPT ![ImprovementBranch] = <<BaseSha>>] }
    /\ gh_comments = <<>>
    /\ gh_reviews = <<>>
    /\ gh_pulls = <<>>
    /\ pcw_analysis \in PcwAnalyses
    /\ pcw_diff \in PcwDiffs
    /\ pcw_config \in PcwConfigs
    /\ pcw_pc = "start"
    /\ pcw_suggestions = <<>>
    /\ pcw_k = 0
    /\ pcw_review_comments = <<>>
    /\ pcw_branch_ref = <<>>

\* lines 834-837: Github(github_token), load_config(), get_repo, get_pull
PcwStart ==
    /\ pcw_pc = "start"
    /\ pcw_pc' = "parse"
    /\ UNCHANGED <<fdpVars, pdsVars, asVars, repoVars, pcsVars, vwsVars, ghVars,
                   cbVars, pcw_analysis, pcw_diff, pcw_config, pcw_suggestions, pcw_k,
                   pcw_review_comments, pcw_branch_ref>>
    /\ UNCHANGED whVars

\* lines 834-837, 858-862: one of them raises and the exception is raised again
PcwStartFails ==
    /\ pcw_pc = "start"
    /\ pcw_pc' = "raised"
    /\ UNCHANGED <<fdpVars, pdsVars, asVars, repoVars, pcsVars, vwsVars, ghVars,
                   cbVars, pcw_analysis, pcw_diff, pcw_config, pcw_suggestions, pcw_k,
                   pcw_review_comments, pcw_branch_ref>>
    /\ UNCHANGED whVars

\* line 839: parse_code_suggestions(analysis) is called
PcwParseCall ==
    /\ pcw_pc = "parse"
    /\ pcs_analysis' = pcw_analysis
    /\ pcs_pc' = "scan"
    /\ pcs_start_pos' = 0
    /\ pcs_diff_blocks' = <<>>
    /\ pcs_n' = 0
    /\ pcs_suggestions' = <<>>
    /\ pcw_pc' = "parsing"
    /\ UNCHANGED <<fdpVars, pdsVars, asVars, repoVars, vwsVars, ghVars, cbVars,
                   pcw_analysis, pcw_diff, pcw_config, pcw_suggestions, pcw_k,
                   pcw_review_comments, pcw_branch_ref>>
    /\ UNCHANGED whVars

\* lines 839-843: parse_code_suggestions returns; the comment is formatted
PcwParsed ==
    /\ pcw_pc = "parsing"
    /\ pcs_pc = "done"
    /\ pcw_suggestions' = pcs_suggestions
    /\ pcs_pc' = "idle"
    /\ pcw_pc' = "comment"
    /\ UNCHANGED <<fdpVars, pdsVars, asVars, repoVars, pcs_analysis, pcs_start_pos,
                   pcs_diff_blocks, pcs_n, pcs_suggestions, vwsVars, ghVars, cbVars,
                   pcw_analysis, pcw_diff, pcw_config, pcw_k, pcw_review_comments,
                   pcw_branch_ref>>
    /\ UNCHANGED whVars

\* PcwCommentFails changed: the exception is swallowed and the call goes on
PcwCommentFailsGoesOn ==
    /\ pcw_pc = "comment"
    /\ pcw_pc' = "inline"
    /\ UNCHANGED <<fdpVars, pdsVars, asVars, repoVars, pcsVars, vwsVars, ghVars,
                   cbVars, pcw_analysis, pcw_diff, pcw_config, pcw_suggestions, pcw_k,
                   pcw_review_comments, pcw_branch_ref>>
    /\ UNCHANGED whVars

\* lines 844-845: pr.create_issue_comment(formatted_comment); of the comment the
\* kind is kept, not the body
PcwComment ==
    /\ pcw_pc = "comment"
    /\ gh_comments' = Append(gh_comments, "analysis")
    /\ pcw_pc' = "inline"
    /\ UNCHANGED <<fdpVars, pdsVars, asVars, repoVars, pcsVars, vwsVars, gh_heads,
                   gh_reviews, gh_pulls, cbVars, pcw_analysis, pcw_diff, pcw_config,
                   pcw_suggestions, pcw_k, pcw_review_comments, pcw_branch_ref>>
    /\ UNCHANGED whVars

\* lines 844, 858-862: posting the comment raises and the exception is raised again
PcwCommentFails ==
    /\ pcw_pc = "comment"
    /\ pcw_pc' = "raised"
    /\ UNCHANGED <<fdpVars, pdsVars, asVars, repoVars, pcsVars, vwsVars, ghVars,
                   cbVars, pcw_analysis, pcw_diff, pcw_config, pcw_suggestions, pcw_k,
                   pcw_review_comments, pcw_branch_ref>>
    /\ UNCHANGED whVars

\* line 734: f"```suggestion\n{suggestion}\n```" (three backticks, suggestion,
\* newline, the suggestion, newline, three backticks)
SuggestionBody(suggestion) ==
    <<Backtick, Backtick, Backtick, "s", "u", "g", "g", "e", "s", "t", "i", "o", "n", NL>>
        \o suggestion \o <<NL, Backtick, Backtick, Backtick>>

\* lines 721-722: post_inline_suggestions: repo.get_commit(pr_details["head_sha"])
PinStart ==
    /\ pcw_pc = "inline"
    /\ pcw_k' = 1
    /\ pcw_review_comments' = <<>>
    /\ pcw_pc' = "positions"
    /\ UNCHANGED <<fdpVars, pdsVars, asVars, repoVars, pcsVars, vwsVars, ghVars,
                   cbVars, pcw_analysis, pcw_diff, pcw_config, pcw_suggestions,
                   pcw_branch_ref>>
    /\ UNCHANGED whVars

\* lines 721, 743-745: get_commit raises; the exception is logged and
\* post_inline_suggestions returns
PinStartFails ==
    /\ pcw_pc = "inline"
    /\ pcw_pc' = "authoring"
    /\ UNCHANGED <<fdpVars, pdsVars, asVars, repoVars, pcsVars, vwsVars, ghVars,
                   cbVars, pcw_analysis, pcw_diff, pcw_config, pcw_suggestions, pcw_k,
                   pcw_review_comments, pcw_branch_ref>>
    /\ UNCHANGED whVars

\* lines 723-732: the next suggestion: find_diff_position is called with the diff of
\* the PR, the file and int(line)
PinPositionCall ==
    /\ pcw_pc = "positions"
    /\ pcw_k <= Len(pcw_suggestions)
    /\ fdp_diff' = pcw_diff
    /\ fdp_file_path' = pcw_suggestions[pcw_k][1]
    /\ fdp_line_number' = ToInt(pcw_suggestions[pcw_k][2])
    /\ fdp_lines' = <<>>
    /\ fdp_i' = 0
    /\ fdp_pc' = "start"
    /\ fdp_return' = <<>>
    /\ fdp_spin' = 0
    /\ pcw_pc' = "position"
    /\ UNCHANGED <<pdsVars, asVars, repoVars, pcsVars, vwsVars, ghVars, cbVars,
                   pcw_analysis, pcw_diff, pcw_config, pcw_suggestions, pcw_k,
                   pcw_review_comments, pcw_branch_ref>>
    /\ UNCHANGED whVars

\* lines 732-737: find_diff_position returns; a position that is not None gives a
\* review comment
PinPosition ==
    /\ pcw_pc = "position"
    /\ fdp_pc = "done"
    /\ pcw_review_comments' =
          IF fdp_return # <<>>
          THEN Append(pcw_review_comments,
                      [path |-> pcw_suggestions[pcw_k][1], position |-> fdp_return[1],
                       body |-> SuggestionBody(pcw_suggestions[pcw_k][3])])
          ELSE pcw_review_comments
    /\ pcw_k' = pcw_k + 1
    /\ fdp_pc' = "idle"
    /\ pcw_pc' = "positions"
    /\ UNCHANGED <<fdp_diff, fdp_file_path, fdp_line_number, fdp_lines, fdp_i,
                   fdp_return, fdp_spin, pdsVars, asVars, repoVars, pcsVars, vwsVars,
                   ghVars, cbVars, pcw_analysis, pcw_diff, pcw_config, pcw_suggestions,
                   pcw_branch_ref>>
    /\ UNCHANGED whVars

\* lines 738-740: pr.create_review(commit=commit, comments=review_comments,
\* event="COMMENT")
PinReview ==
    /\ pcw_pc = "positions"
    /\ pcw_k > Len(pcw_suggestions)
    /\ pcw_review_comments # <<>>
    /\ gh_reviews' = Append(gh_reviews, pcw_review_comments)
    /\ pcw_pc' = "authoring"
    /\ UNCHANGED <<fdpVars, pdsVars, asVars, repoVars, pcsVars, vwsVars, gh_heads,
                   gh_comments, gh_pulls, cbVars, pcw_analysis, pcw_diff, pcw_config,
                   pcw_suggestions, pcw_k, pcw_review_comments, pcw_branch_ref>>
    /\ UNCHANGED whVars

\* lines 739, 743-745: create_review raises; the exception is logged and
\* post_inline_suggestions returns
PinReviewFails ==
    /\ pcw_pc = "positions"
    /\ pcw_k > Len(pcw_suggestions)
    /\ pcw_review_comments # <<>>
    /\ pcw_pc' = "authoring"
    /\ UNCHANGED <<fdpVars, pdsVars, asVars, repoVars, pcsVars, vwsVars, ghVars,
                   cbVars, pcw_analysis, pcw_diff, pcw_config, pcw_suggestions, pcw_k,
                   pcw_review_comments, pcw_branch_ref>>
    /\ UNCHANGED whVars

\* lines 738, 741-742: there is no review comment, no review is created
PinNoReview ==
    /\ pcw_pc = "positions"
    /\ pcw_k > Len(pcw_suggestions)
    /\ pcw_review_comments = <<>>
    /\ pcw_pc' = "authoring"
    /\ UNCHANGED <<fdpVars, pdsVars, asVars, repoVars, pcsVars, vwsVars, ghVars,
                   cbVars, pcw_analysis, pcw_diff, pcw_config, pcw_suggestions, pcw_k,
                   pcw_review_comments, pcw_branch_ref>>
    /\ UNCHANGED whVars

\* lines 851-852: enable_authoring and auto_commit_suggestions and suggestions
PcwAutoCommit ==
    /\ pcw_config.enable_authoring
    /\ pcw_config.auto_commit_suggestions
    /\ pcw_suggestions # <<>>

\* lines 851, 855: enable_authoring and create_improvement_prs
PcwImprove ==
    /\ pcw_config.enable_authoring
    /\ pcw_config.create_improvement_prs

\* lines 851-853: apply_suggestions_to_pr(repo, pr, suggestions) is called
PcwApplyCall ==
    /\ pcw_pc = "authoring"
    /\ PcwAutoCommit
    /\ as_suggestions' = pcw_suggestions
    /\ as_pc' = "start"
    /\ as_head_ref' = HeadSha
    /\ as_groups' = <<>>
    /\ as_f' = 0
    /\ as_current_content' = <<>>
    /\ as_suggs' = <<>>
    /\ as_k' = 0
    /\ as_lines' = <<>>
    /\ as_offset' = 0
    /\ as_applied' = FALSE
    /\ as_changes' = <<>>
    /\ pcw_pc' = "applying"
    /\ UNCHANGED <<fdpVars, pdsVars, repoVars, pcsVars, vwsVars, ghVars, cbVars,
                   pcw_analysis, pcw_diff, pcw_config, pcw_suggestions, pcw_k,
                   pcw_review_comments, pcw_branch_ref>>
    /\ UNCHANGED whVars

\* line 853: apply_suggestions_to_pr returns
PcwApplied ==
    /\ pcw_pc = "applying"
    /\ as_pc \in { "done", "failed" }
    /\ as_pc' = "idle"
    /\ pcw_pc' = "improve"
    /\ UNCHANGED <<fdpVars, pdsVars, as_suggestions, as_head_ref, as_groups, as_f,
                   as_current_content, as_suggs, as_k, as_lines, as_offset, as_applied,
                   as_changes, repoVars, pcsVars, vwsVars, ghVars, cbVars,
                   pcw_analysis, pcw_diff, pcw_config, pcw_suggestions, pcw_k,
                   pcw_review_comments, pcw_branch_ref>>
    /\ UNCHANGED whVars

\* lines 851-852: the suggestions are not committed
PcwNoApply ==
    /\ pcw_pc = "authoring"
    /\ ~PcwAutoCommit
    /\ pcw_pc' = "improve"
    /\ UNCHANGED <<fdpVars, pdsVars, asVars, repoVars, pcsVars, vwsVars, ghVars,
                   cbVars, pcw_analysis, pcw_diff, pcw_config, pcw_suggestions, pcw_k,
                   pcw_review_comments, pcw_branch_ref>>
    /\ UNCHANGED whVars

\* lines 855-856, 662-674: create_improvement_pr_from_analysis: create_branch(repo,
\* base_branch, branch_name) is called
ImpBranchCall ==
    /\ pcw_pc = "improve"
    /\ PcwImprove
    /\ cb_base_branch' = MainBranch
    /\ cb_new_branch_name' = ImprovementBranch
    /\ cb_pc' = "start"
    /\ cb_base_sha' = HeadSha
    /\ cb_return' = <<>>
    /\ cb_creates' = 0
    /\ pcw_pc' = "branching"
    /\ UNCHANGED <<fdpVars, pdsVars, asVars, repoVars, pcsVars, vwsVars, ghVars,
                   pcw_analysis, pcw_diff, pcw_config, pcw_suggestions, pcw_k,
                   pcw_review_comments, pcw_branch_ref>>
    /\ UNCHANGED whVars

\* line 674: create_branch returns the ref
ImpBranched ==
    /\ pcw_pc = "branching"
    /\ cb_pc = "returned"
    /\ pcw_branch_ref' = cb_return
    /\ cb_pc' = "idle"
    /\ pcw_pc' = "commit"
    /\ UNCHANGED <<fdpVars, pdsVars, asVars, repoVars, pcsVars, vwsVars, ghVars,
                   cb_base_branch, cb_new_branch_name, cb_base_sha, cb_return,
                   cb_creates, pcw_analysis, pcw_diff, pcw_config, pcw_suggestions,
                   pcw_k, pcw_review_comments>>
    /\ UNCHANGED whVars

\* lines 674, 695-696: create_branch raises; the exception is logged and the call returns
ImpBranchFailed ==
    /\ pcw_pc = "branching"
    /\ cb_pc = "raised"
    /\ cb_pc' = "idle"
    /\ pcw_pc' = "done"
    /\ UNCHANGED <<fdpVars, pdsVars, asVars, repoVars, pcsVars, vwsVars, ghVars,
                   cb_base_branch, cb_new_branch_name, cb_base_sha, cb_return,
                   cb_creates, pcw_analysis, pcw_diff, pcw_config, pcw_suggestions,
                   pcw_k, pcw_review_comments, pcw_branch_ref>>
    /\ UNCHANGED whVars

\* lines 677-679, 516-540: create_commit_with_changes(repo, branch_ref, {}, ...): a
\* tree without entries on the tree of the commit of the ref, a commit on that
\* commit, and the new branch is moved to it
ImpCommit ==
    /\ pcw_pc = "commit"
    /\ repo_trees' = Append(repo_trees, [base_tree |-> pcw_branch_ref[2], entries |-> <<>>])
    /\ repo_commits' =
          Append(repo_commits, [tree |-> Len(repo_trees) + 1, parent |-> pcw_branch_ref[2]])
    /\ gh_heads' = [gh_heads EXCEPT ![pcw_branch_ref[1]] = <<Len(repo_commits) + 1>>]
    /\ pcw_pc' = "pull"
    /\ UNCHANGED <<fdpVars, pdsVars, asVars, repo_blobs, repo_ref, pcsVars, vwsVars,
                   gh_comments, gh_reviews, gh_pulls, cbVars, pcw_analysis, pcw_diff,
                   pcw_config, pcw_suggestions, pcw_k, pcw_review_comments,
                   pcw_branch_ref>>
    /\ UNCHANGED whVars

\* lines 677, 518-543, 695-696: a call made by create_commit_with_changes raises:
\* the tree and the commit created before it stay, the branch is not moved; the
\* exception is logged and the call returns
ImpCommitFails ==
    /\ pcw_pc = "commit"
    /\ \E tree \in BOOLEAN, commit \in BOOLEAN :
          /\ commit => tree
          /\ repo_trees' =
                IF tree
                THEN Append(repo_trees, [base_tree |-> pcw_branch_ref[2], entries |-> <<>>])
                ELSE repo_trees
          /\ repo_commits' =
                IF commit
                THEN Append(repo_commits,
                            [tree |-> Len(repo_trees) + 1, parent |-> pcw_branch_ref[2]])
                ELSE repo_commits
    /\ pcw_pc' = "done"
    /\ UNCHANGED <<fdpVars, pdsVars, asVars, repo_blobs, repo_ref, pcsVars, vwsVars,
                   ghVars, cbVars, pcw_analysis, pcw_diff, pcw_config, pcw_suggestions,
                   pcw_k, pcw_review_comments, pcw_branch_ref>>
    /\ UNCHANGED whVars

\* lines 693, 561-565: create_improvement_pr: repo.create_pull(head=branch_name,
\* base=base_branch)
ImpPull ==
    /\ pcw_pc = "pull"
    /\ gh_pulls' = Append(gh_pulls, [head |-> ImprovementBranch, base |-> MainBranch])
    /\ pcw_pc' = "done"
    /\ UNCHANGED <<fdpVars, pdsVars, asVars, repoVars, pcsVars, vwsVars, gh_heads,
                   gh_comments, gh_reviews, cbVars, pcw_analysis, pcw_diff, pcw_config,
                   pcw_suggestions, pcw_k, pcw_review_comments, pcw_branch_ref>>
    /\ UNCHANGED whVars

\* lines 693, 566-568, 695-696: create_pull raises; the exception is logged and the
\* call returns
ImpPullFails ==
    /\ pcw_pc = "pull"
    /\ pcw_pc' = "done"
    /\ UNCHANGED <<fdpVars, pdsVars, asVars, repoVars, pcsVars, vwsVars, ghVars,
                   cbVars, pcw_analysis, pcw_diff, pcw_config, pcw_suggestions, pcw_k,
                   pcw_review_comments, pcw_branch_ref>>
    /\ UNCHANGED whVars

\* lines 851, 855: no improvement PR is asked for
PcwNoImprove ==
    /\ pcw_pc = "improve"
    /\ ~PcwImprove
    /\ pcw_pc' = "done"
    /\ UNCHANGED <<fdpVars, pdsVars, asVars, repoVars, pcsVars, vwsVars, ghVars,
                   cbVars, pcw_analysis, pcw_diff, pcw_config, pcw_suggestions, pcw_k,
                   pcw_review_comments, pcw_branch_ref>>
    /\ UNCHANGED whVars

PcwNext ==
    \/ PcwStart
    \/ PcwStartFails
    \/ PcwParseCall
    \/ PcwParsed
    \/ PcwComment
    \/ PcwCommentFails
    \/ PinStart
    \/ PinStartFails
    \/ PinPositionCall
    \/ PinPosition
    \/ PinReview
    \/ PinReviewFails
    \/ PinNoReview
    \/ PcwApplyCall
    \/ PcwApplied
    \/ PcwNoApply
    \/ ImpBranchCall
    \/ ImpBranched
    \/ ImpBranchFailed
    \/ ImpCommit
    \/ ImpCommitFails
    \/ ImpPull
    \/ ImpPullFails
    \/ PcwNoImprove

\* the call and the calls it makes
PostNext ==
    \/ PcwNext
    \/ PcsNext
    \/ FdpNext
    \/ AsNext
    \/ CbNext

SpecPost == PcwInit /\ [][PostNext]_vars

\* the edits that the suggestions hold for the file, in the order of the
\* suggestions
EditsOfFile(suggestions, path) ==
    LET S == SelectSeq(suggestions, LAMBDA s : s[1] = path)
    IN  [i \in 1..Len(S) |-> <<ToInt(S[i][2]), S[i][3]>>]

\* C15: every batch of edits that reaches the edit loop for one file, from a
\* suggestion list that parse_code_suggestions produced and post_comment_webhook
\* passed on, is grouped by that file, sorted ascending by target line and has
\* no two edits with the same target line.
C15_BatchSortedNoDuplicates ==
    (pcw_pc = "applying" /\ as_pc = "edits") =>
        /\ IsPermutation(as_suggs, EditsOfFile(pcw_suggestions, as_groups[as_f][1]))
        /\ \A i, j \in 1..Len(as_suggs) : i < j => as_suggs[i][1] <= as_suggs[j][1]
        /\ DistinctTargets(as_suggs)

\* the call has not committed to the PR branch
NothingCommitted == repo_ref = HeadSha /\ repo_blobs = <<>>

\* C20: the main comment is posted before any inline review is created; the
\* suggestions are committed to the PR branch only after both steps and only
\* with enable_authoring, auto_commit_suggestions and a non-empty suggestion
\* list; an improvement PR is created only with enable_authoring and
\* create_improvement_prs; a failure of the inline review step leads to the
\* authoring steps; a failure of the main comment is raised and after it no
\* review, commit, branch or PR exists and no step is taken.
C20_StepOrder ==
    /\ [](pcw_pc = "raised" =>
              /\ gh_reviews = <<>>
              /\ NothingCommitted
              /\ gh_pulls = <<>>
              /\ gh_heads \in { HeadsInit, [HeadsInit EXCEPT ![ImprovementBranch] = <<BaseSha>>] })
    /\ [][/\ gh_comments' # gh_comments =>
                /\ pcw_pc = "comment"
                /\ gh_comments = <<>>
                /\ gh_reviews = <<>>
                /\ NothingCommitted
                /\ gh_pulls = <<>>
          /\ gh_reviews' # gh_reviews =>
                /\ pcw_pc = "positions"
                /\ gh_comments # <<>>
                /\ NothingCommitted
                /\ gh_pulls = <<>>
          /\ (repo_ref' # repo_ref \/ repo_blobs' # repo_blobs) =>
                /\ pcw_pc = "applying"
                /\ gh_comments # <<>>
                /\ PcwAutoCommit
                /\ gh_pulls = <<>>
          /\ (gh_pulls' # gh_pulls \/ gh_heads' # gh_heads) =>
                /\ pcw_pc \in { "branching", "commit", "pull" }
                /\ gh_comments # <<>>
                /\ PcwImprove
          /\ (pcw_pc \in { "inline", "positions" } /\ pcw_pc' # pcw_pc) =>
                pcw_pc' \in { "positions", "position", "authoring" }
          /\ pcw_pc = "authoring" =>
                pcw_pc' = IF PcwAutoCommit THEN "applying" ELSE "improve"
          /\ (pcw_pc = "improve" /\ PcwImprove) => pcw_pc' = "branching"
          /\ pcw_pc' = "raised" => pcw_pc \in { "start", "comment" }
          /\ pcw_pc # "raised"
       ]_vars

\* C20 witness: the comment was posted, the review of one comment failed, the
\* suggestions were committed to the PR branch and the improvement PR created.
C20_ReviewFailedAuthoringRan ==
    /\ pcw_pc = "done"
    /\ gh_comments = <<"analysis">>
    /\ pcw_review_comments # <<>>
    /\ gh_reviews = <<>>
    /\ repo_ref # HeadSha
    /\ gh_pulls # <<>>

-----------------------------------------------------------------------------
\* webhook_handler(), with handle_apply_comment(installation_id, repo_name,
\* pr_number) of harperbot_apply.py

\* line 884: request.get_json(): the document that the bytes of the body hold
GetJson(payload) ==
    Deliveries[CHOOSE e \in 1..Len(Deliveries) : Deliveries[e].payload = payload].data

\* The headers X-Hub-Signature-256 of a delivery: none, the signature under
\* TestSecret, the signature of another body, the signature without "=", the
\* signature of the invalid test.
WhSignatures(payload) ==
    { <<>>,
      <<Sha256 \o Equals \o HexDigest(TestSecret, payload)>>,
      <<Sha256 \o Equals \o HexDigest(TestSecret, PayloadEmpty)>>,
      <<Sha256 \o HexDigest(TestSecret, payload)>>,
      <<TestInvalidSig>> }

WhInit ==
    /\ FdpIdle
    /\ PdsIdle
    /\ AsIdle
    /\ PcsIdle
    /\ VwsIdle
    /\ CbIdle
    /\ PcwIdle
    /\ gh_heads \in { HeadsInit, [HeadsInit EXCEPT ![ImprovementBranch] = <<BaseSha>>] }
    /\ gh_comments = <<>>
    /\ gh_reviews = <<>>
    /\ gh_pulls = <<>>
    /\ wh_flask \in BOOLEAN
    /\ \E e \in 1..Len(Deliveries) : wh_payload = Deliveries[e].payload
    /\ wh_signature \in WhSignatures(wh_payload)
    /\ wh_secret \in { <<>>, <<TestSecret>> }
    /\ wh_data = <<>>
    /\ wh_pc = "start"
    /\ wh_calls = <<>>
    /\ wh_response = <<>>

\* lines 872-874: flask is not installed
WhNoFlask ==
    /\ wh_pc = "start"
    /\ ~wh_flask
    /\ wh_response' = <<[code |-> 500, body |-> "Flask not installed"]>>
    /\ wh_pc' = "done"
    /\ UNCHANGED <<fdpVars, pdsVars, asVars, repoVars, pcsVars, vwsVars, ghVars,
                   cbVars, pcwVars, wh_flask, wh_payload, wh_signature, wh_secret,
                   wh_data, wh_calls>>

\* lines 876-880: the body, the header and the secret are read and
\* verify_webhook_signature is called
WhVerifyCall ==
    /\ wh_pc = "start"
    /\ wh_flask
    /\ vws_payload' = wh_payload
    /\ vws_signature' = wh_signature
    /\ vws_secret' = wh_secret
    /\ vws_pc' = "call"
    /\ vws_return' = FALSE
    /\ wh_calls' = Append(wh_calls, "verify_webhook_signature")
    /\ wh_pc' = "verify"
    /\ UNCHANGED <<fdpVars, pdsVars, asVars, repoVars, pcsVars, ghVars, cbVars,
                   pcwVars, wh_flask, wh_payload, wh_signature, wh_secret, wh_data,
                   wh_response>>

\* lines 880-882: verify_webhook_signature returned False
WhInvalid ==
    /\ wh_pc = "verify"
    /\ vws_pc = "returned"
    /\ ~vws_return
    /\ vws_pc' = "idle"
    /\ wh_response' = <<[code |-> 403, body |-> "Invalid signature"]>>
    /\ wh_pc' = "done"
    /\ UNCHANGED <<fdpVars, pdsVars, asVars, repoVars, pcsVars, vws_payload,
                   vws_signature, vws_secret, vws_return, ghVars, cbVars, pcwVars,
                   wh_flask, wh_payload, wh_signature, wh_secret, wh_data, wh_calls>>

\* line 880: verify_webhook_signature raised; nothing catches the exception and it
\* leaves webhook_handler
WhVerifyRaised ==
    /\ wh_pc = "verify"
    /\ vws_pc = "raised"
    /\ vws_pc' = "idle"
    /\ wh_pc' = "raised"
    /\ UNCHANGED <<fdpVars, pdsVars, asVars, repoVars, pcsVars, vws_payload,
                   vws_signature, vws_secret, vws_return, ghVars, cbVars, pcwVars,
                   wh_flask, wh_payload, wh_signature, wh_secret, wh_data, wh_calls,
                   wh_response>>

\* lines 880-888: verify_webhook_signature returned True; request.get_json()
WhParse ==
    /\ wh_pc = "verify"
    /\ vws_pc = "returned"
    /\ vws_return
    /\ vws_pc' = "idle"
    /\ wh_data' = <<GetJson(wh_payload)>>
    /\ wh_calls' = Append(wh_calls, "get_json")
    /\ wh_pc' = "ids"
    /\ UNCHANGED <<fdpVars, pdsVars, asVars, repoVars, pcsVars, vws_payload,
                   vws_signature, vws_secret, vws_return, ghVars, cbVars, pcwVars,
                   wh_flask, wh_payload, wh_signature, wh_secret, wh_response>>

\* line 886: data.get("action"), None or a string
EventType ==
    IF "action" \in DOMAIN wh_data[1] THEN <<wh_data[1].action>> ELSE <<>>

\* line 887: "pull_request" in data
HasPr == "pull_request" \in DOMAIN wh_data[1]

\* line 888: "issue" in data and "comment" in data
HasComment == "issue" \in DOMAIN wh_data[1] /\ "comment" \in DOMAIN wh_data[1]

\* lines 890-891: data["installation"] and data["repository"] exist
HasIds == "installation" \in DOMAIN wh_data[1] /\ "repository" \in DOMAIN wh_data[1]

UpperCase ==
    <<"A", "B", "C", "D", "E", "F", "G", "H", "I", "J", "K", "L", "M", "N", "O", "P", "Q",
      "R", "S", "T", "U", "V", "W", "X", "Y", "Z">>

LowerCase ==
    <<"a", "b", "c", "d", "e", "f", "g", "h", "i", "j", "k", "l", "m", "n", "o", "p", "q",
      "r", "s", "t", "u", "v", "w", "x", "y", "z">>

\* line 899: text.lower(), for the letters A to Z
Lower(text) ==
    [k \in 1..Len(text) |->
        IF \E u \in 1..Len(UpperCase) : UpperCase[u] = text[k]
        THEN LowerCase[CHOOSE u \in 1..Len(UpperCase) : UpperCase[u] = text[k]]
        ELSE text[k]]

ApplyCommand == <<"/", "a", "p", "p", "l", "y">>

\* line 893: event_type == "created" and has_comment
IsCommentEvent == EventType = <<"created">> /\ HasComment

\* lines 898-899: data["comment"]["body"].strip().lower() == "/apply"
IsApplyComment == Lower(Strip(wh_data[1].comment.body)) = ApplyCommand

\* line 905: event_type in ["opened", "synchronize", "reopened"] and has_pr
IsPrEvent ==
    /\ EventType \in { <<"opened">>, <<"synchronize">>, <<"reopened">> }
    /\ HasPr

\* lines 890-891: installation_id and repo_name are read
WhIds ==
    /\ wh_pc = "ids"
    /\ HasIds
    /\ wh_pc' = "route"
    /\ UNCHANGED <<fdpVars, pdsVars, asVars, repoVars, pcsVars, vwsVars, ghVars,
                   cbVars, pcwVars, wh_flask, wh_payload, wh_signature, wh_secret,
                   wh_data, wh_calls, wh_response>>

\* lines 890-891: the document has no "installation" or no "repository"; the
\* KeyError leaves webhook_handler
WhIdsRaise ==
    /\ wh_pc = "ids"
    /\ ~HasIds
    /\ wh_pc' = "raised"
    /\ UNCHANGED <<fdpVars, pdsVars, asVars, repoVars, pcsVars, vwsVars, ghVars,
                   cbVars, pcwVars, wh_flask, wh_payload, wh_signature, wh_secret,
                   wh_data, wh_calls, wh_response>>

\* lines 893-896: a comment on an issue that is no pull request
WhNotPrComment ==
    /\ wh_pc = "route"
    /\ IsCommentEvent
    /\ "pull_request" \notin DOMAIN wh_data[1].issue
    /\ wh_response' = <<[code |-> 200, body |-> "ignored"]>>
    /\ wh_pc' = "done"
    /\ UNCHANGED <<fdpVars, pdsVars, asVars, repoVars, pcsVars, vwsVars, ghVars,
                   cbVars, pcwVars, wh_flask, wh_payload, wh_signature, wh_secret,
                   wh_data, wh_calls>>

\* lines 893-900: the comment is /apply: handle_apply_comment is called
WhApplyCall ==
    /\ wh_pc = "route"
    /\ IsCommentEvent
    /\ "pull_request" \in DOMAIN wh_data[1].issue
    /\ IsApplyComment
    /\ wh_calls' = Append(wh_calls, "handle_apply_comment")
    /\ wh_pc' = "apply"
    /\ UNCHANGED <<fdpVars, pdsVars, asVars, repoVars, pcsVars, vwsVars, ghVars,
                   cbVars, pcwVars, wh_flask, wh_payload, wh_signature, wh_secret,
                   wh_data, wh_response>>

\* lines 893-902: another comment on a pull request
WhCommentIgnored ==
    /\ wh_pc = "route"
    /\ IsCommentEvent
    /\ "pull_request" \in DOMAIN wh_data[1].issue
    /\ ~IsApplyComment
    /\ wh_response' = <<[code |-> 200, body |-> "ignored"]>>
    /\ wh_pc' = "done"
    /\ UNCHANGED <<fdpVars, pdsVars, asVars, repoVars, pcsVars, vwsVars, ghVars,
                   cbVars, pcwVars, wh_flask, wh_payload, wh_signature, wh_secret,
                   wh_data, wh_calls>>

\* lines 904-907: no comment event and no opened, synchronize or reopened event
\* of a pull request
WhEventIgnored ==
    /\ wh_pc = "route"
    /\ ~IsCommentEvent
    /\ ~IsPrEvent
    /\ wh_response' = <<[code |-> 200, body |-> "ignored"]>>
    /\ wh_pc' = "done"
    /\ UNCHANGED <<fdpVars, pdsVars, asVars, repoVars, pcsVars, vwsVars, ghVars,
                   cbVars, pcwVars, wh_flask, wh_payload, wh_signature, wh_secret,
                   wh_data, wh_calls>>

\* lines 909-914: setup_environment_webhook(installation_id)
WhSetup ==
    /\ wh_pc = "route"
    /\ ~IsCommentEvent
    /\ IsPrEvent
    /\ wh_calls' = Append(wh_calls, "setup_environment_webhook")
    /\ wh_pc' = "details"
    /\ UNCHANGED <<fdpVars, pdsVars, asVars, repoVars, pcsVars, vwsVars, ghVars,
                   cbVars, pcwVars, wh_flask, wh_payload, wh_signature, wh_secret,
                   wh_data, wh_response>>

\* lines 914, 920-922: setup_environment_webhook raises
WhSetupFails ==
    /\ wh_pc = "route"
    /\ ~IsCommentEvent
    /\ IsPrEvent
    /\ wh_calls' = Append(wh_calls, "setup_environment_webhook")
    /\ wh_response' = <<[code |-> 500, body |-> "Processing failed"]>>
    /\ wh_pc' = "done"
    /\ UNCHANGED <<fdpVars, pdsVars, asVars, repoVars, pcsVars, vwsVars, ghVars,
                   cbVars, pcwVars, wh_flask, wh_payload, wh_signature, wh_secret,
                   wh_data>>

\* line 915: get_pr_details_webhook(g, repo_name, pr_number)
WhDetails ==
    /\ wh_pc = "details"
    /\ wh_calls' = Append(wh_calls, "get_pr_details_webhook")
    /\ wh_pc' = "analyze"
    /\ UNCHANGED <<fdpVars, pdsVars, asVars, repoVars, pcsVars, vwsVars, ghVars,
                   cbVars, pcwVars, wh_flask, wh_payload, wh_signature, wh_secret,
                   wh_data, wh_response>>

\* lines 915, 920-922: get_pr_details_webhook raises
WhDetailsFails ==
    /\ wh_pc = "details"
    /\ wh_calls' = Append(wh_calls, "get_pr_details_webhook")
    /\ wh_response' = <<[code |-> 500, body |-> "Processing failed"]>>
    /\ wh_pc' = "done"
    /\ UNCHANGED <<fdpVars, pdsVars, asVars, repoVars, pcsVars, vwsVars, ghVars,
                   cbVars, pcwVars, wh_flask, wh_payload, wh_signature, wh_secret,
                   wh_data>>

\* line 916: analyze_with_gemini(client, pr_details)
WhAnalyze ==
    /\ wh_pc = "analyze"
    /\ wh_calls' = Append(wh_calls, "analyze_with_gemini")
    /\ wh_pc' = "post"
    /\ UNCHANGED <<fdpVars, pdsVars, asVars, repoVars, pcsVars, vwsVars, ghVars,
                   cbVars, pcwVars, wh_flask, wh_payload, wh_signature, wh_secret,
                   wh_data, wh_response>>

\* lines 916, 920-922: analyze_with_gemini raises
WhAnalyzeFails ==
    /\ wh_pc = "analyze"
    /\ wh_calls' = Append(wh_calls, "analyze_with_gemini")
    /\ wh_response' = <<[code |-> 500, body |-> "Processing failed"]>>
    /\ wh_pc' = "done"
    /\ UNCHANGED <<fdpVars, pdsVars, asVars, repoVars, pcsVars, vwsVars, ghVars,
                   cbVars, pcwVars, wh_flask, wh_payload, wh_signature, wh_secret,
                   wh_data>>

\* line 917: post_comment_webhook is called with the diff of the PR details and the
\* analysis that analyze_with_gemini returned; load_config gives the flags
WhPostCall ==
    /\ wh_pc = "post"
    /\ pcw_analysis' \in PcwAnalyses
    /\ pcw_diff' \in PcwDiffs
    /\ pcw_config' \in PcwConfigs
    /\ pcw_pc' = "start"
    /\ pcw_suggestions' = <<>>
    /\ pcw_k' = 0
    /\ pcw_review_comments' = <<>>
    /\ pcw_branch_ref' = <<>>
    /\ wh_calls' = Append(wh_calls, "post_comment_webhook")
    /\ wh_pc' = "posting"
    /\ UNCHANGED <<fdpVars, pdsVars, asVars, repoVars, pcsVars, vwsVars, ghVars,
                   cbVars, wh_flask, wh_payload, wh_signature, wh_secret, wh_data,
                   wh_response>>

\* lines 917-919: post_comment_webhook returns
WhPosted ==
    /\ wh_pc = "posting"
    /\ pcw_pc = "done"
    /\ pcw_pc' = "idle"
    /\ wh_response' = <<[code |-> 200, body |-> "ok"]>>
    /\ wh_pc' = "done"
    /\ UNCHANGED <<fdpVars, pdsVars, asVars, repoVars, pcsVars, vwsVars, ghVars,
                   cbVars, pcw_analysis, pcw_diff, pcw_config, pcw_suggestions, pcw_k,
                   pcw_review_comments, pcw_branch_ref, wh_flask, wh_payload,
                   wh_signature, wh_secret, wh_data, wh_calls>>

\* lines 917, 920-922: post_comment_webhook raises
WhPostRaised ==
    /\ wh_pc = "posting"
    /\ pcw_pc = "raised"
    /\ pcw_pc' = "idle"
    /\ wh_response' = <<[code |-> 500, body |-> "Processing failed"]>>
    /\ wh_pc' = "done"
    /\ UNCHANGED <<fdpVars, pdsVars, asVars, repoVars, pcsVars, vwsVars, ghVars,
                   cbVars, pcw_analysis, pcw_diff, pcw_config, pcw_suggestions, pcw_k,
                   pcw_review_comments, pcw_branch_ref, wh_flask, wh_payload,
                   wh_signature, wh_secret, wh_data, wh_calls>>

\* harperbot_apply.py line 41: g = setup_environment_webhook(installation_id), the
\* tuple of line 798
HacSetup ==
    /\ wh_pc = "apply"
    /\ wh_calls' = Append(wh_calls, "setup_environment_webhook")
    /\ wh_pc' = "apply_details"
    /\ UNCHANGED <<fdpVars, pdsVars, asVars, repoVars, pcsVars, vwsVars, ghVars,
                   cbVars, pcwVars, wh_flask, wh_payload, wh_signature, wh_secret,
                   wh_data, wh_response>>

\* harperbot_apply.py lines 33-41, 56-58: the import or setup_environment_webhook
\* raises
HacSetupFails ==
    /\ wh_pc = "apply"
    /\ wh_calls' = Append(wh_calls, "setup_environment_webhook")
    /\ wh_response' = <<[code |-> 500, body |-> "Apply failed"]>>
    /\ wh_pc' = "done"
    /\ UNCHANGED <<fdpVars, pdsVars, asVars, repoVars, pcsVars, vwsVars, ghVars,
                   cbVars, pcwVars, wh_flask, wh_payload, wh_signature, wh_secret,
                   wh_data>>

\* harperbot_apply.py lines 42, 56-58: get_pr_details_webhook(g, ...) calls
\* g.get_repo on the tuple; the AttributeError is caught
HacDetailsFails ==
    /\ wh_pc = "apply_details"
    /\ wh_calls' = Append(wh_calls, "get_pr_details_webhook")
    /\ wh_response' = <<[code |-> 500, body |-> "Apply failed"]>>
    /\ wh_pc' = "done"
    /\ UNCHANGED <<fdpVars, pdsVars, asVars, repoVars, pcsVars, vwsVars, ghVars,
                   cbVars, pcwVars, wh_flask, wh_payload, wh_signature, wh_secret,
                   wh_data>>

WhNext ==
    \/ WhNoFlask
    \/ WhVerifyCall
    \/ WhInvalid
    \/ WhVerifyRaised
    \/ WhParse
    \/ WhIds
    \/ WhIdsRaise
    \/ WhNotPrComment
    \/ WhApplyCall
    \/ WhCommentIgnored
    \/ WhEventIgnored
    \/ WhSetup
    \/ WhSetupFails
    \/ WhDetails
    \/ WhDetailsFails
    \/ WhAnalyze
    \/ WhAnalyzeFails
    \/ WhPostCall
    \/ WhPosted
    \/ WhPostRaised
    \/ HacSetup
    \/ HacSetupFails
    \/ HacDetailsFails

\* the handler and the calls it makes
HookNext ==
    \/ WhNext
    \/ VwsNext
    \/ PostNext

SpecHook == WhInit /\ [][HookNext]_vars

\* the signature header of the request is "sha256=" followed by the hex
\* HMAC-SHA256 of the body under the secret, and the secret is set
WhValidSignature ==
    /\ wh_secret # <<>>
    /\ wh_signature = <<Sha256 \o Equals \o HexDigest(wh_secret[1], wh_payload)>>

\* nothing of the request was processed: the payload was not parsed, no call
\* but the verification was made, no comment or review was posted, nothing was
\* committed, no branch or pull request was created
NothingProcessed ==
    /\ wh_data = <<>>
    /\ wh_calls \in { <<>>, <<"verify_webhook_signature">> }
    /\ pcw_pc = "idle"
    /\ gh_comments = <<>>
    /\ gh_reviews = <<>>
    /\ gh_pulls = <<>>
    /\ NothingCommitted

\* C18 (first half): the payload is parsed, credentials are set up, PR details
\* fetched, the analysis run, a comment or review posted and /apply handled
\* only after verify_webhook_signature returned True for the request.
C18_ProcessedOnlyVerified ==
    ~NothingProcessed =>
        /\ wh_calls[1] = "verify_webhook_signature"
        /\ WhValidSignature
        /\ wh_pc # "verify"

\* C18: no request is processed unless verify_webhook_signature returned True
\* for it first, and a request whose verification fails is answered with 403
\* 'Invalid signature' and none of the processing steps is performed.
C18_VerifiedFirst ==
    /\ C18_ProcessedOnlyVerified
    /\ (wh_flask /\ ~WhValidSignature /\ wh_pc \notin { "start", "verify" }) =>
          /\ wh_pc = "done"
          /\ wh_response = <<[code |-> 403, body |-> "Invalid signature"]>>
          /\ NothingProcessed

\* the analysis path and the /apply path of the handler
AnalysisRan ==
    \E k \in 1..Len(wh_calls) : wh_calls[k] \in { "analyze_with_gemini", "post_comment_webhook" }

ApplyHandled == \E k \in 1..Len(wh_calls) : wh_calls[k] = "handle_apply_comment"

\* the event of the request is one that the analysis is run for
AnalysisEvent ==
    /\ "action" \in DOMAIN wh_data[1]
    /\ wh_data[1].action \in { "opened", "synchronize", "reopened" }
    /\ "pull_request" \in DOMAIN wh_data[1]

\* the event of the request is the comment /apply on a pull request
ApplyEvent ==
    /\ "action" \in DOMAIN wh_data[1]
    /\ wh_data[1].action = "created"
    /\ "issue" \in DOMAIN wh_data[1]
    /\ "comment" \in DOMAIN wh_data[1]
    /\ "pull_request" \in DOMAIN wh_data[1].issue
    /\ Lower(Strip(wh_data[1].comment.body)) = ApplyCommand

\* C19 (first half): for a verified request the analysis is run only for an
\* opened, synchronize or reopened event with a pull_request,
\* handle_apply_comment is called only for the comment /apply on a pull
\* request, and never both.
C19_PathsOnlyForTheirEvents ==
    /\ AnalysisRan => AnalysisEvent
    /\ ApplyHandled => ApplyEvent
    /\ ~(AnalysisRan /\ ApplyHandled)

\* C19: for a verified request the analysis is run only for an opened,
\* synchronize or reopened event with a pull_request, handle_apply_comment is
\* called only for the comment /apply on a pull request, never both, and every
\* other event is answered with status 'ignored' and causes no analysis,
\* comment, review or commit.
C19_Routing ==
    /\ C19_PathsOnlyForTheirEvents
    /\ (wh_data # <<>> /\ wh_pc # "ids" /\ wh_pc # "route" /\ ~AnalysisEvent /\ ~ApplyEvent) =>
          /\ wh_pc = "done"
          /\ wh_response = <<[code |-> 200, body |-> "ignored"]>>
          /\ wh_calls = <<"verify_webhook_signature", "get_json">>
          /\ pcw_pc = "idle"
          /\ gh_comments = <<>>
          /\ gh_reviews = <<>>
          /\ NothingCommitted

\* the call that handle_apply_comment made last is setup_environment_webhook,
\* the call that reaches the GitHub App API and the environment: it raised
SetupCallFailed == wh_calls[Len(wh_calls)] = "setup_environment_webhook"

\* C21: when handle_apply_comment has ended, either a collaborator call failed
\* and the answer is 500 'Apply failed', or every call succeeded and exactly
\* one comment was posted on the PR ('Applied code suggestions from HarperBot
\* analysis.' or 'No code suggestions found to apply.') and the answer is
\* status 'applied'.
C21_ApplyOutcome ==
    (wh_pc = "done" /\ ApplyHandled) =>
        IF SetupCallFailed
        THEN wh_response = <<[code |-> 500, body |-> "Apply failed"]>>
        ELSE /\ wh_response = <<[code |-> 200, body |-> "applied"]>>
             /\ Len(gh_comments) = 1
             /\ gh_comments[1] \in { "applied", "no suggestions" }

====
